---------------------------- MODULE Spec2Model ----------------------------
(***************************************************************************)
(* A model of redisTOON: the TOON value tree, the path engine              *)
(* (toon_path.c), the TOON encoder and decoder (toon_encoder.c,            *)
(* toon_decoder.c) and the TOON.SET / TOON.GET / TOON.DEL commands         *)
(* (redistoon.c).                                                          *)
(*                                                                         *)
(* C strings are sequences of one-character strings; the terminating '\0'  *)
(* is what At returns beyond the end.  A ToonValue is a record tagged by   *)
(* its type; a pointer into a tree is the sequence of child positions that *)
(* leads to the node.                                                      *)
(***************************************************************************)
EXTENDS Integers, Sequences, FiniteSets, TLC

VARIABLES
    root,    \* doc->root of the document held by the key
    pc,      \* "idle": between calls; "done": a call has returned into op
    op,      \* the last call: its name, arguments, return value and the root before it
    nops,    \* number of successful mutations so far
    val,     \* codec: the value handed to toon_encode
    text,    \* codec: the C string handed to toon_decode
    dec,     \* codec: what toon_decode returned
    cpc,     \* codec: "start", "text", "jtext", then the calls made so far
    heap,    \* codec: what malloc'ed buffers hold before they are written
    json,    \* codec: the C string returned by toon_to_json or handed to json_to_toon
    fault,   \* codec: the invalid memory access the last call made, "" for none
    char_signed  \* the build: TRUE when plain char is a signed type

vars == <<root, pc, op, nops, val, text, dec, cpc, heap, json, fault, char_signed>>
docVars == <<root, pc, op, nops>>
codecVars == <<val, text, dec, cpc, heap, json, fault, char_signed>>

---------------------------------------------------------------------------
(* Characters and C library functions                                      *)

NUL == "NUL"
TAB == "\t"
NL == "\n"
CR == "\r"
QUOTE == "\""
BACKSLASH == "\\"
\* a byte of a UTF-8 sequence, 0x80 or above
HIGH == "0xC3"

At(s, i) == IF i >= 1 /\ i <= Len(s) THEN s[i] ELSE NUL

\* a local variable: F of the value of v, which is computed once
Bind(v, F(_)) == F(v)

Digits == <<"0", "1", "2", "3", "4", "5", "6", "7", "8", "9">>

isdigit(c) == \E d \in 1..10 : Digits[d] = c

isspace(c) == c \in {" ", TAB, NL, CR, "\f", "VT"}

DigitVal(c) == (CHOOSE d \in 1..10 : Digits[d] = c) - 1

\* (int) of a size_t sum: the low 32 bits.  The checker's integers are
\* themselves 32-bit ints and every sum of the model stays within them, where
\* the conversion is the identity; a sum that left the range would stop the check.
ToInt32(n) == n

RECURSIVE SkipSpaces(_, _)
SkipSpaces(s, i) == IF isspace(At(s, i)) THEN SkipSpaces(s, i + 1) ELSE i

RECURSIVE AccDigits(_, _, _)
AccDigits(s, i, acc) ==
    IF isdigit(At(s, i)) THEN AccDigits(s, i + 1, acc * 10 + DigitVal(s[i])) ELSE acc

\* atoi(s + start - 1): blanks, an optional sign, then digits up to the first
\* character that is not one; 0 when there is no digit
atoi(s, start) ==
    Bind(SkipSpaces(s, start), LAMBDA i :
    Bind(AccDigits(s, IF At(s, i) \in {"-", "+"} THEN i + 1 ELSE i, 0), LAMBDA n :
        ToInt32(IF At(s, i) = "-" THEN 0 - n ELSE n)))

RECURSIVE NatDigits(_)
NatDigits(n) ==
    IF n < 10 THEN <<Digits[n + 1]>> ELSE NatDigits(n \div 10) \o <<Digits[(n % 10) + 1]>>

\* sprintf("%ld", n) and sprintf("%zu", n)
ltoa(n) == IF n < 0 THEN <<"-">> \o NatDigits(0 - n) ELSE NatDigits(n)

---------------------------------------------------------------------------
(* ToonValue (redistoon.h)                                                 *)

NULLPTR == [type |-> "NULL"]
Null == [type |-> "null"]
Bool(b) == [type |-> "boolean", boolean |-> b]
\* a double holding a decimal of at most fifteen significant digits, which a
\* double keeps apart: the digits of m followed by the digits x, with the sign
\* of m and e of the digits behind the point.  m holds the first nine digits,
\* x those after them; e = 0 for an integer, and the last digit is not 0
\* otherwise
DecX(m, x, e) == [type |-> "number", number |-> [m |-> m, e |-> e, x |-> x]]
Dec(m, e) == DecX(m, <<>>, e)
Num(n) == Dec(n, 0)
Str(s) == [type |-> "string", string |-> s]
\* a TOON_STRING whose value.string is NULL
StrNull == [type |-> "string"]
Arr(es) == [type |-> "array", elements |-> es]
Entry(k, v) == [key |-> k, value |-> v]
Obj(es) == [type |-> "object", entries |-> es]
Tab(hs, rs) == [type |-> "tabular_array", headers |-> hs, rows |-> rs]

\* the children of a node that a pointer can walk through
NChildren(v) ==
    CASE v.type = "array" -> Len(v.elements)
      [] v.type = "object" -> Len(v.entries)
      [] OTHER -> 0

Child(v, i) == IF v.type = "array" THEN v.elements[i] ELSE v.entries[i].value

RECURSIVE ValueAt(_, _)
ValueAt(v, loc) == IF loc = <<>> THEN v ELSE ValueAt(Child(v, Head(loc)), Tail(loc))

\* the tree with the node at loc overwritten by w
RECURSIVE StoreAt(_, _, _)
StoreAt(v, loc, w) ==
    IF loc = <<>> THEN w
    ELSE IF v.type = "array"
         THEN [v EXCEPT !.elements[Head(loc)] = StoreAt(@, Tail(loc), w)]
         ELSE [v EXCEPT !.entries[Head(loc)].value = StoreAt(@, Tail(loc), w)]

\* the element freed and left in its slot: no shift, the length as it was
RemoveWithoutShift(s, i) == [s EXCEPT ![i] = NULLPTR]

\* for (k = i; k < length - 1; k++) s[k] = s[k + 1]; length--;
RemoveIndex(s, i) == [k \in 1..(Len(s) - 1) |-> IF k < i THEN s[k] ELSE s[k + 1]]

\* the sequences of ss one after the other
RECURSIVE FlatSeq(_)
FlatSeq(ss) == IF ss = <<>> THEN <<>> ELSE Head(ss) \o FlatSeq(Tail(ss))

RECURSIVE NodeCount(_)
NodeCount(v) ==
    LET RECURSIVE Sum(_, _)
        Sum(k, acc) == IF k > NChildren(v) THEN acc ELSE Sum(k + 1, acc + NodeCount(Child(v, k)))
    IN Sum(1, 1)

---------------------------------------------------------------------------
(* Memory (toon_memory.c)                                                  *)

\* the identity of a node: a node that a caller names carries the name in
\* its id field, a node made by toon_value_create during a call has none
NewNode == [owner |-> "new", loc |-> <<>>]
NodeId(v) == IF "id" \in DOMAIN v THEN v.id ELSE NewNode

\* the nodes that toon_value_free(value) hands to free(), in the order of the
\* calls: the children of a node, then free(value) itself
RECURSIVE toon_value_free(_)
toon_value_free(value) ==
    CASE value = NULLPTR -> <<>>
      [] value.type = "array" ->
            FlatSeq([i \in 1..Len(value.elements) |-> toon_value_free(value.elements[i])])
               \o <<NodeId(value)>>
      [] value.type = "object" ->
            FlatSeq([i \in 1..Len(value.entries) |-> toon_value_free(value.entries[i].value)])
               \o <<NodeId(value)>>
      [] value.type = "tabular_array" ->
            FlatSeq([r \in 1..Len(value.rows) |->
                       FlatSeq([c \in 1..Len(value.headers) |->
                                  toon_value_free(value.rows[r][c])])])
               \o <<NodeId(value)>>
      [] OTHER -> <<NodeId(value)>>


RECURSIVE SumSeq(_)
SumSeq(ns) == IF ns = <<>> THEN 0 ELSE Head(ns) + SumSeq(Tail(ns))

\* one token for every three characters, rounding up
CharsRoundedUp(s) == (Len(s) + 2) \div 3

\* strlen(s) / 4: one token for every four characters
CharsPerToken(s) == Len(s) \div 4

\* toon_estimate_tokens of a value whose Strings have text
RECURSIVE toon_estimate_tokens(_)
toon_estimate_tokens(value) ==
    CASE value = NULLPTR -> 0
      [] value.type \in {"null", "boolean", "number"} -> 1
      [] value.type = "string" -> CharsPerToken(value.string) + 1
      [] value.type = "array" ->
            2 + SumSeq([i \in 1..Len(value.elements) |->
                          toon_estimate_tokens(value.elements[i])])
      [] value.type = "object" ->
            SumSeq([i \in 1..Len(value.entries) |->
                      CharsPerToken(value.entries[i].key) + 2
                         + toon_estimate_tokens(value.entries[i].value)])
      [] value.type = "tabular_array" ->
            3 + SumSeq([i \in 1..Len(value.headers) |-> CharsPerToken(value.headers[i]) + 1])
              + SumSeq([i \in 1..Len(value.rows) |->
                          SumSeq([j \in 1..Len(value.headers) |->
                                    toon_estimate_tokens(value.rows[i][j])])])

\* a String without text lies in the value: strlen reads through NULL
RECURSIVE ReadsNullText(_)
ReadsNullText(value) ==
    CASE value = NULLPTR -> FALSE
      [] value.type = "string" -> value = StrNull
      [] value.type = "array" ->
            \E i \in 1..Len(value.elements) : ReadsNullText(value.elements[i])
      [] value.type = "object" ->
            \E i \in 1..Len(value.entries) : ReadsNullText(value.entries[i].value)
      [] value.type = "tabular_array" ->
            \E i \in 1..Len(value.rows) :
               \E j \in 1..Len(value.headers) : ReadsNullText(value.rows[i][j])
      [] OTHER -> FALSE

---------------------------------------------------------------------------
(* Decoder (toon_decoder.c)                                                *)

\* the Parser struct: current is an index into the input, error the latched
\* message with the position it was set at
NoError == [set |-> FALSE, message |-> "", line |-> 0, column |-> 0]
Parser(cur, line, column, error) ==
    [current |-> cur, line |-> line, column |-> column, error |-> error]

\* an error setter that keeps the last error, not the first
set_error_overwriting(p, message) ==
    [p EXCEPT !.error = [set |-> TRUE, message |-> message,
                         line |-> p.line, column |-> p.column]]

\* if (p->error) return; the message is kept with p->line and p->column
set_error(p, message) ==
    IF p.error.set THEN p
    ELSE [p EXCEPT !.error = [set |-> TRUE, message |-> message,
                              line |-> p.line, column |-> p.column]]

RECURSIVE skip_whitespace(_, _)
skip_whitespace(inp, p) ==
    Bind(At(inp, p.current), LAMBDA c :
        IF c # NUL /\ isspace(c)
        THEN skip_whitespace(inp,
                 [p EXCEPT !.current = @ + 1,
                           !.line = IF c = NL THEN @ + 1 ELSE @,
                           !.column = IF c = NL THEN 1 ELSE @ + 1])
        ELSE p)

peek(inp, p) == At(inp, p.current)

\* the parser after consume(); the character consumed is peek before it
consume(inp, p) ==
    Bind(peek(inp, p), LAMBDA c :
        IF c = NUL THEN p
        ELSE [p EXCEPT !.current = @ + 1,
                       !.line = IF c = NL THEN @ + 1 ELSE @,
                       !.column = IF c = NL THEN 0 ELSE @ + 1])

\* a char * result: NULL or the characters
NullStr == [null |-> TRUE, chars |-> <<>>]
CStr(s) == [null |-> FALSE, chars |-> s]

StringBufMax == 4095

Unescape(c) ==
    CASE c = "n" -> NL
      [] c = "r" -> CR
      [] c = "t" -> TAB
      [] c = QUOTE -> QUOTE
      [] c = BACKSLASH -> BACKSLASH
      [] OTHER -> NUL

\* the while (peek(p) != '"' && peek(p) != '\0') loop of parse_quoted_string
RECURSIVE QuotedBody(_, _, _)
QuotedBody(inp, p, buf) ==
    Bind(peek(inp, p), LAMBDA c :
        IF c = QUOTE \/ c = NUL THEN [p |-> p, str |-> CStr(buf)]
        ELSE IF c = BACKSLASH
        THEN Bind(consume(inp, p), LAMBDA p1 :
             Bind(Unescape(peek(inp, p1)), LAMBDA e :
                 IF e = NUL
                 THEN [p |-> set_error(consume(inp, p1), "Invalid escape sequence"),
                       str |-> NullStr]
                 ELSE QuotedBody(inp, consume(inp, p1),
                          IF Len(buf) < StringBufMax THEN Append(buf, e) ELSE buf)))
        ELSE QuotedBody(inp, consume(inp, p),
                 IF Len(buf) < StringBufMax THEN Append(buf, c) ELSE buf))

parse_quoted_string(inp, p) ==
    IF peek(inp, p) # QUOTE
    THEN [p |-> set_error(consume(inp, p), "Expected opening quote"), str |-> NullStr]
    ELSE Bind(QuotedBody(inp, consume(inp, p), <<>>), LAMBDA b :
             IF b.str.null THEN b
             ELSE IF peek(inp, b.p) # QUOTE
             THEN [p |-> set_error(consume(inp, b.p), "Expected closing quote"),
                   str |-> NullStr]
             ELSE [p |-> consume(inp, b.p), str |-> b.str])

RECURSIVE TrimRight(_)
TrimRight(buf) ==
    IF Len(buf) > 0 /\ isspace(buf[Len(buf)]) THEN TrimRight(SubSeq(buf, 1, Len(buf) - 1))
    ELSE buf

RECURSIVE TrimLeft(_)
TrimLeft(buf) == IF Len(buf) > 0 /\ isspace(buf[1]) THEN TrimLeft(Tail(buf)) ELSE buf

\* char *end = start + strlen(start) - 1; while (end > start && isspace(*end)) *end-- = 0;
\* the first character is never cut
RECURSIVE TrimRightKeepFirst(_)
TrimRightKeepFirst(buf) ==
    IF Len(buf) > 1 /\ isspace(buf[Len(buf)])
    THEN TrimRightKeepFirst(SubSeq(buf, 1, Len(buf) - 1))
    ELSE buf

RECURSIVE UnquotedBody(_, _, _, _)
UnquotedBody(inp, p, delimiters, buf) ==
    Bind(peek(inp, p), LAMBDA c :
        IF c # NUL /\ c \notin delimiters
        THEN UnquotedBody(inp, consume(inp, p), delimiters,
                 IF Len(buf) < StringBufMax THEN Append(buf, c) ELSE buf)
        ELSE [p |-> p, str |-> TrimRight(buf)])

parse_unquoted_string(inp, p, delimiters) == UnquotedBody(inp, p, delimiters, <<>>)

\* strtod of a buffer of digits and dots after an optional '-': the digits up
\* to the second dot; 0 when there is no digit
RECURSIVE ScanDigits(_, _)
ScanDigits(s, i) == IF isdigit(At(s, i)) THEN ScanDigits(s, i + 1) ELSE i

RECURSIVE Pow10(_)
Pow10(n) == IF n = 0 THEN 1 ELSE 10 * Pow10(n - 1)

RECURSIVE Normalize(_, _)
Normalize(m, e) ==
    IF e > 0 /\ m % 10 = 0 THEN Normalize(m \div 10, e - 1) ELSE [m |-> m, e |-> e]

\* the decimal number written at s[i..]: [end, m, e], end = i when there is none
DecimalAt(s, i) ==
    Bind(ScanDigits(s, i), LAMBDA a :
    Bind(IF At(s, a) = "." THEN ScanDigits(s, a + 1) ELSE a, LAMBDA b :
    Bind(IF b > a THEN b - a - 1 ELSE 0, LAMBDA nfrac :
        IF (a - i) + nfrac = 0 THEN [end |-> i, m |-> 0, e |-> 0]
        ELSE [end |-> b,
              m |-> AccDigits(s, i, 0) * Pow10(nfrac)
                    + (IF nfrac > 0 THEN AccDigits(s, a + 1, 0) ELSE 0),
              e |-> nfrac])))

NumberBufMax == 63

RECURSIVE NumberBody(_, _, _)
NumberBody(inp, p, buf) ==
    Bind(peek(inp, p), LAMBDA c :
        IF Len(buf) < NumberBufMax /\ (isdigit(c) \/ c = ".")
        THEN NumberBody(inp, consume(inp, p), Append(buf, c))
        ELSE [p |-> p, buf |-> buf])

parse_number(inp, p) ==
    Bind(peek(inp, p) = "-", LAMBDA neg :
    Bind(NumberBody(inp, IF neg THEN consume(inp, p) ELSE p,
                    IF neg THEN <<"-">> ELSE <<>>), LAMBDA b :
    Bind(DecimalAt(b.buf, IF neg THEN 2 ELSE 1), LAMBDA d :
    Bind(Normalize(IF neg THEN 0 - d.m ELSE d.m, d.e), LAMBDA n :
        [p |-> b.p, v |-> Dec(n.m, n.e)]))))

Keyword(str) ==
    CASE str = <<"n", "u", "l", "l">> -> Null
      [] str = <<"t", "r", "u", "e">> -> Bool(TRUE)
      [] str = <<"f", "a", "l", "s", "e">> -> Bool(FALSE)
      [] OTHER -> Str(str)

StrValue(str) == IF str.null THEN StrNull ELSE Str(str.chars)

CountBufMax == 31

\* while (isdigit(peek(p)) && i < 31) count_buf[i++] = consume(p);
RECURSIVE CountBody(_, _, _)
CountBody(inp, p, buf) ==
    IF isdigit(peek(inp, p)) /\ Len(buf) < CountBufMax
    THEN CountBody(inp, consume(inp, p), Append(buf, peek(inp, p)))
    ELSE [p |-> p, n |-> atoi(buf, 1)]

\* a call that stops at consume(p) != c: the error set after the consume
Expect(inp, p, c, message) ==
    IF peek(inp, p) = c THEN [ok |-> TRUE, p |-> consume(inp, p)]
    ELSE [ok |-> FALSE, p |-> set_error(consume(inp, p), message)]

HeaderBufMax == 255
MaxHeaders == 256

\* while (peek(p) != ',' && peek(p) != '}' && j < 255) header_buf[j++] = consume(p);
\* at the end of the input consume() stays where it is and the buffer fills
\* up with '\0': the header read is what came before
RECURSIVE HeaderBody(_, _, _)
HeaderBody(inp, p, buf) ==
    Bind(peek(inp, p), LAMBDA c :
        IF c # "," /\ c # "}" /\ c # NUL /\ Len(buf) < HeaderBufMax
        THEN HeaderBody(inp, consume(inp, p), Append(buf, c))
        ELSE [p |-> p, buf |-> buf])

\* the while (peek(p) != '}' && num_headers < 256) loop; at the end of the input
\* the loop adds the empty header until there are 256
RECURSIVE HeadersLoop(_, _, _)
HeadersLoop(inp, p, headers) ==
    IF peek(inp, p) = "}" \/ Len(headers) >= MaxHeaders THEN [p |-> p, headers |-> headers]
    ELSE Bind(HeaderBody(inp, skip_whitespace(inp, p), <<>>), LAMBDA h :
         Bind(Append(headers, TrimRightKeepFirst(TrimLeft(h.buf))), LAMBDA added :
         Bind(skip_whitespace(inp, h.p), LAMBDA p2 :
         Bind(IF peek(inp, p2) = "," THEN consume(inp, p2) ELSE p2, LAMBDA p3 :
             IF peek(inp, p3) = NUL
             THEN [p |-> p3, headers |-> added]
             ELSE HeadersLoop(inp, p3, added)))))

\* one cell of a row
parse_cell(inp, p) ==
    IF peek(inp, p) = QUOTE
    THEN Bind(parse_quoted_string(inp, p), LAMBDA q : [p |-> q.p, v |-> StrValue(q.str)])
    ELSE IF isdigit(peek(inp, p)) \/ peek(inp, p) = "-" THEN parse_number(inp, p)
    ELSE Bind(parse_unquoted_string(inp, p, {",", NL, CR}), LAMBDA u :
             [p |-> u.p, v |-> Keyword(u.str)])

RECURSIVE RowCells(_, _, _, _)
RowCells(inp, p, num_headers, cells) ==
    IF Len(cells) >= num_headers THEN [p |-> p, cells |-> cells]
    ELSE Bind(parse_cell(inp, skip_whitespace(inp, p)), LAMBDA c :
         Bind(skip_whitespace(inp, c.p), LAMBDA p1 :
             RowCells(inp,
                      IF Len(cells) < num_headers - 1 /\ peek(inp, p1) = ","
                      THEN consume(inp, p1) ELSE p1,
                      num_headers, Append(cells, c.v))))

RECURSIVE RowsLoop(_, _, _, _, _)
RowsLoop(inp, p, num_rows, num_headers, rows) ==
    IF Len(rows) >= num_rows THEN [p |-> p, rows |-> rows]
    ELSE Bind(RowCells(inp, skip_whitespace(inp, p), num_headers, <<>>), LAMBDA r :
             RowsLoop(inp, skip_whitespace(inp, r.p), num_rows, num_headers,
                      Append(rows, r.cells)))

\* return NULL; out of a parse function
ReturnNull(p) == [p |-> p, v |-> NULLPTR]

parse_tabular_array(inp, p) ==
    Bind(Expect(inp, p, "[", "Expected '['"), LAMBDA e1 :
    IF ~e1.ok THEN ReturnNull(e1.p) ELSE
    Bind(CountBody(inp, e1.p, <<>>), LAMBDA cnt :
    Bind(Expect(inp, cnt.p, ",", "Expected ','"), LAMBDA e2 :
    IF ~e2.ok THEN ReturnNull(e2.p) ELSE
    Bind(Expect(inp, e2.p, "]", "Expected ']'"), LAMBDA e3 :
    IF ~e3.ok THEN ReturnNull(e3.p) ELSE
    Bind(Expect(inp, e3.p, "{", "Expected '{'"), LAMBDA e4 :
    IF ~e4.ok THEN ReturnNull(e4.p) ELSE
    Bind(HeadersLoop(inp, e4.p, <<>>), LAMBDA hl :
    Bind(Expect(inp, hl.p, "}", "Expected '}'"), LAMBDA e5 :
    IF ~e5.ok THEN ReturnNull(e5.p) ELSE
    Bind(Expect(inp, e5.p, ":", "Expected ':'"), LAMBDA e6 :
    IF ~e6.ok THEN ReturnNull(e6.p) ELSE
    Bind(RowsLoop(inp, skip_whitespace(inp, e6.p), cnt.n, Len(hl.headers), <<>>),
         LAMBDA rl : [p |-> rl.p, v |-> Tab(hl.headers, rl.rows)])))))))))

KeyBufMax == 255
MaxEntries == 256

\* while (peek(p) != ':' && peek(p) != '\0' && i < 255) key_buf[i++] = consume(p);
RECURSIVE KeyBody(_, _, _)
KeyBody(inp, p, buf) ==
    Bind(peek(inp, p), LAMBDA c :
        IF c # ":" /\ c # NUL /\ Len(buf) < KeyBufMax
        THEN KeyBody(inp, consume(inp, p), Append(buf, c))
        ELSE [p |-> p, buf |-> buf])

RECURSIVE parse_value(_, _)
RECURSIVE ElementsLoop(_, _, _, _)
RECURSIVE EntriesLoop(_, _, _)

\* a loop that stops where the input ends
RECURSIVE ElementsWhileGiven(_, _, _, _)
ElementsWhileGiven(inp, p, length, elements) ==
    IF Len(elements) >= length \/ peek(inp, skip_whitespace(inp, p)) = NUL
    THEN [p |-> p, elements |-> elements]
    ELSE Bind(parse_value(inp, skip_whitespace(inp, p)), LAMBDA e :
         Bind(skip_whitespace(inp, e.p), LAMBDA p1 :
             ElementsWhileGiven(inp,
                                IF Len(elements) < length - 1 /\ peek(inp, p1) = ","
                                THEN consume(inp, p1) ELSE p1,
                                length, Append(elements, e.v))))

\* for (j = 0; j < length; j++) { skip; elements[j] = parse_value(p); skip;
\*                                if (j < length - 1 && peek(p) == ',') consume(p); }
ElementsLoop(inp, p, length, elements) ==
    IF Len(elements) >= length THEN [p |-> p, elements |-> elements]
    ELSE Bind(parse_value(inp, skip_whitespace(inp, p)), LAMBDA e :
         Bind(skip_whitespace(inp, e.p), LAMBDA p1 :
             ElementsLoop(inp,
                          IF Len(elements) < length - 1 /\ peek(inp, p1) = ","
                          THEN consume(inp, p1) ELSE p1,
                          length, Append(elements, e.v))))

parse_simple_array(inp, p) ==
    Bind(Expect(inp, p, "[", "Expected '['"), LAMBDA e1 :
    IF ~e1.ok THEN ReturnNull(e1.p) ELSE
    Bind(CountBody(inp, e1.p, <<>>), LAMBDA cnt :
    Bind(Expect(inp, cnt.p, "]", "Expected ']'"), LAMBDA e2 :
    IF ~e2.ok THEN ReturnNull(e2.p) ELSE
    Bind(Expect(inp, e2.p, ":", "Expected ':'"), LAMBDA e3 :
    IF ~e3.ok THEN ReturnNull(e3.p) ELSE
    Bind(ElementsLoop(inp, skip_whitespace(inp, e3.p), cnt.n, <<>>),
         LAMBDA el : [p |-> el.p, v |-> Arr(el.elements)])))))

\* the while (peek(p) != '\0' && length < 256) loop of parse_object
EntriesLoop(inp, p, entries) ==
    IF peek(inp, p) = NUL \/ Len(entries) >= MaxEntries THEN [p |-> p, entries |-> entries]
    ELSE Bind(skip_whitespace(inp, p), LAMBDA p1 :
         IF peek(inp, p1) = NUL THEN [p |-> p1, entries |-> entries] ELSE
         Bind(KeyBody(inp, p1, <<>>), LAMBDA k :
         IF peek(inp, k.p) # ":" THEN [p |-> k.p, entries |-> entries] ELSE
         Bind(parse_value(inp, skip_whitespace(inp, consume(inp, k.p))), LAMBDA e :
         Bind(skip_whitespace(inp, e.p), LAMBDA p2 :
             EntriesLoop(inp,
                         IF peek(inp, p2) = NL THEN consume(inp, p2) ELSE p2,
                         Append(entries,
                                Entry(TrimRightKeepFirst(TrimLeft(k.buf)), e.v)))))))

parse_object(inp, p) ==
    Bind(EntriesLoop(inp, p, <<>>), LAMBDA el : [p |-> el.p, v |-> Obj(el.entries)])

\* while (isdigit(*lookahead)) lookahead++;
parse_value(inp, p0) ==
    Bind(skip_whitespace(inp, p0), LAMBDA p :
    Bind(peek(inp, p), LAMBDA c :
        IF c = QUOTE
        THEN Bind(parse_quoted_string(inp, p), LAMBDA q :
                 [p |-> q.p, v |-> StrValue(q.str)])
        ELSE IF isdigit(c) \/ c = "-" THEN parse_number(inp, p)
        ELSE IF c = "["
        THEN IF At(inp, ScanDigits(inp, p.current + 1)) = ","
             THEN parse_tabular_array(inp, p)
             ELSE parse_simple_array(inp, p)
        ELSE Bind(parse_unquoted_string(inp, p, {",", NL, CR, ":"}), LAMBDA u :
                 [p |-> u.p, v |-> Keyword(u.str)])))

\* the lookahead of toon_decode along the first line, from index i; under is
\* the byte in memory before the input, read when the text begins with ':'
RECURSIVE LooksLikeObject(_, _, _)
LooksLikeObject(inp, i, under) ==
    Bind(At(inp, i), LAMBDA c :
        IF c = NUL \/ c = NL THEN FALSE
        ELSE IF c = ":" /\ (IF i > 1 THEN inp[i - 1] ELSE under) # "]" THEN TRUE
        ELSE LooksLikeObject(inp, i + 1, under))

\* *(lookahead - 1) is read with lookahead at the first byte of the string:
\* the text begins with ':'
LookaheadUnderrun(toon_string) ==
    skip_whitespace(toon_string, Parser(1, 1, 0, NoError)).current = 1
        /\ At(toon_string, 1) = ":"

\* what toon_decode hands back: the value returned (NULLPTR for NULL) and *error
toon_decode(toon_string, under) ==
    Bind(skip_whitespace(toon_string, Parser(1, 1, 0, NoError)), LAMBDA p :
    Bind(IF LooksLikeObject(toon_string, p.current, under)
         THEN parse_object(toon_string, p)
         ELSE parse_value(toon_string, p), LAMBDA r :
        IF r.p.error.set THEN [value |-> NULLPTR, error |-> r.p.error]
        ELSE [value |-> r.v, error |-> NoError]))

---------------------------------------------------------------------------
(* Encoder (toon_encoder.c)                                                *)

Lower(c) ==
    CASE c = "I" -> "i" [] c = "N" -> "n" [] c = "F" -> "f" [] c = "A" -> "a"
      [] c = "T" -> "t" [] c = "Y" -> "y" [] c = "E" -> "e" [] c = "X" -> "x"
      [] OTHER -> c

\* s[i..] begins with word, letter case ignored
StartsWithWord(s, i, word) ==
    \A k \in 1..Len(word) : Lower(At(s, i + k - 1)) = word[k]

isxdigit(c) == isdigit(c) \/ Lower(c) \in {"a", "b", "c", "d", "e", "f"}

RECURSIVE ScanHex(_, _)
ScanHex(s, i) == IF isxdigit(At(s, i)) THEN ScanHex(s, i + 1) ELSE i

\* endptr of strtod(s, &endptr) as an index into s (1 when nothing converts):
\* blanks, a sign, then a decimal with an optional exponent, a hexadecimal
\* integer, "inf", "infinity" or "nan"
StrtodEnd(s) ==
    LET i == SkipSpaces(s, 1)
        j == IF At(s, i) \in {"-", "+"} THEN i + 1 ELSE i
        d == DecimalAt(s, j)
        k == IF At(s, d.end) \in {"e", "E"}
             THEN IF At(s, d.end + 1) \in {"-", "+"} THEN d.end + 2 ELSE d.end + 1
             ELSE d.end
    IN IF At(s, j) = "0" /\ Lower(At(s, j + 1)) = "x" /\ isxdigit(At(s, j + 2))
       THEN ScanHex(s, j + 2)
       ELSE IF d.end > j
       THEN IF k > d.end /\ isdigit(At(s, k)) THEN ScanDigits(s, k) ELSE d.end
       ELSE IF StartsWithWord(s, j, <<"i", "n", "f", "i", "n", "i", "t", "y">>) THEN j + 8
       ELSE IF StartsWithWord(s, j, <<"i", "n", "f">>) THEN j + 3
       ELSE IF StartsWithWord(s, j, <<"n", "a", "n">>) THEN j + 3
       ELSE 1

\* *p < 32 on a plain char: the control characters, and where char is a
\* signed type the bytes from 0x80 on, which are negative
IsControl(c) == c \in {TAB, NL, CR, "\f", "VT"} \/ (char_signed /\ c = HIGH)

needs_quoting(str) ==
    \/ str = <<>>
    \/ Keyword(str).type # "string"
    \/ StrtodEnd(str) > Len(str)
    \/ isspace(str[1]) \/ isspace(str[Len(str)])
    \/ \E i \in 1..Len(str) :
          str[i] \in {",", ":", NL, CR, "{", "}", "[", "]"} \/ IsControl(str[i])

EscapeChar(c) ==
    CASE c = QUOTE -> <<BACKSLASH, QUOTE>>
      [] c = BACKSLASH -> <<BACKSLASH, BACKSLASH>>
      [] c = NL -> <<BACKSLASH, "n">>
      [] c = CR -> <<BACKSLASH, "r">>
      [] c = TAB -> <<BACKSLASH, "t">>
      [] OTHER -> <<c>>

RECURSIVE EscapeBody(_)
EscapeBody(str) == IF str = <<>> THEN <<>> ELSE EscapeChar(Head(str)) \o EscapeBody(Tail(str))

escape_string(str) == <<QUOTE>> \o EscapeBody(str) \o <<QUOTE>>

IndentWidth == 2

make_indent(level) == [i \in 1..(level * IndentWidth) |-> " "]

\* the digits of n in a field of w, zeros in front
RECURSIVE ZeroPad(_, _)
ZeroPad(digits, w) == IF Len(digits) >= w THEN digits ELSE ZeroPad(<<"0">> \o digits, w)

\* the digits of a number plus one
RECURSIVE IncDigits(_)
IncDigits(d) ==
    IF d = <<>> THEN <<"1">>
    ELSE IF d[Len(d)] = "9" THEN IncDigits(SubSeq(d, 1, Len(d) - 1)) \o <<"0">>
    ELSE SubSeq(d, 1, Len(d) - 1) \o <<Digits[DigitVal(d[Len(d)]) + 2]>>

\* the first w of the digits d, rounded by the digit that follows them (the
\* digits cut are never exactly a half here)
RoundDigits(d, w) ==
    IF Len(d) <= w THEN d
    ELSE IF DigitVal(d[w + 1]) >= 5 THEN IncDigits(SubSeq(d, 1, w))
    ELSE SubSeq(d, 1, w)

RECURSIVE StripZeros(_)
StripZeros(d) ==
    IF d # <<>> /\ d[Len(d)] = "0" THEN StripZeros(SubSeq(d, 1, Len(d) - 1)) ELSE d

Precision == 10

\* sprintf("%.10g") of a number that is no integer, below 10^10 and not below
\* 0.0001, where %g writes no exponent: ten significant digits, the zeros at
\* the end of the fraction dropped
FormatG(n) ==
    Bind(NatDigits(IF n.m < 0 THEN 0 - n.m ELSE n.m) \o n.x, LAMBDA d :
    Bind(n.e - (IF Len(d) > Precision THEN Len(d) - Precision ELSE 0), LAMBDA e :
    Bind(ZeroPad(RoundDigits(d, Precision), e + 1), LAMBDA r :
    Bind(StripZeros(SubSeq(r, Len(r) - e + 1, Len(r))), LAMBDA fraction :
        (IF n.m < 0 THEN <<"-">> ELSE <<>>)
           \o SubSeq(r, 1, Len(r) - e)
           \o (IF fraction = <<>> THEN <<>> ELSE <<".">> \o fraction)))))

\* if (num == (long)num) sprintf("%ld") else sprintf("%.10g")
FormatNumber(n) == IF n.e = 0 THEN ltoa(n.m) \o n.x ELSE FormatG(n)

RECURSIVE JoinWith(_, _)
JoinWith(parts, sep) ==
    IF parts = <<>> THEN <<>>
    ELSE IF Len(parts) = 1 THEN parts[1]
    ELSE parts[1] \o sep \o JoinWith(Tail(parts), sep)

RECURSIVE Concat(_)
Concat(parts) == IF parts = <<>> THEN <<>> ELSE Head(parts) \o Concat(Tail(parts))

\* a test that takes only Objects for containers
NotAnObject(v) == v.type # "object"

IsPrimitive(v) == v.type \notin {"object", "array", "tabular_array"}

\* junk is what a malloc'ed result buffer holds, up to its first '\0', behind
\* the bytes the encoder wrote: a buffer whose last byte was stored with
\* *p++ = c carries no terminator of its own.
RECURSIVE encode_value(_, _, _, _)

encode_tabular_array(tab, indent_level, junk) ==
    LET indent == make_indent(indent_level)
        row(r) == indent
                    \o JoinWith([c \in 1..Len(tab.headers) |->
                                    encode_value(tab.rows[r][c], 0, TRUE, junk)], <<",">>)
                    \o <<NL>>
    IN <<"[">> \o ltoa(Len(tab.rows)) \o <<",", "]", "{">>
          \o JoinWith(tab.headers, <<",">>) \o <<"}", ":", NL>>
          \o Concat([r \in 1..Len(tab.rows) |-> row(r)])
          \o (IF Len(tab.rows) > 0 THEN junk ELSE <<>>)

encode_array(value, indent_level, inline_mode, junk) ==
    LET len == Len(value.elements)
        all_primitives == \A i \in 1..len : IsPrimitive(value.elements[i])
        indent == make_indent(indent_level + 1)
    IN IF all_primitives
       THEN <<"[">> \o ltoa(len) \o <<"]", ":", " ">>
              \o JoinWith([i \in 1..len |-> encode_value(value.elements[i], 0, TRUE, junk)],
                          <<",">>)
       ELSE <<"[">> \o ltoa(len) \o <<"]", ":", NL>>
              \o Concat([i \in 1..len |->
                    indent \o <<"-", " ">>
                       \o encode_value(value.elements[i], indent_level + 1, FALSE, junk)
                       \o <<NL>>])

encode_object(value, indent_level, inline_mode, junk) ==
    LET indent == make_indent(indent_level)
        entry(i) ==
            (IF i > 1 THEN (IF inline_mode THEN <<",", " ">> ELSE indent) ELSE <<>>)
               \o value.entries[i].key \o <<":", " ">>
               \o encode_value(value.entries[i].value, indent_level + 1, FALSE, junk)
               \o (IF inline_mode THEN <<>> ELSE <<NL>>)
    IN Concat([i \in 1..Len(value.entries) |-> entry(i)])
          \o (IF Len(value.entries) = 0 \/ ~inline_mode THEN junk ELSE <<>>)

encode_value(value, indent_level, inline_mode, junk) ==
    CASE value = NULLPTR -> <<"n", "u", "l", "l">>
      [] value.type = "null" -> <<"n", "u", "l", "l">>
      [] value.type = "boolean" ->
            IF value.boolean THEN <<"t", "r", "u", "e">> ELSE <<"f", "a", "l", "s", "e">>
      [] value.type = "number" -> FormatNumber(value.number)
      [] value.type = "string" ->
            IF needs_quoting(value.string) THEN escape_string(value.string)
            ELSE value.string
      [] value.type = "array" -> encode_array(value, indent_level, inline_mode, junk)
      [] value.type = "object" -> encode_object(value, indent_level, inline_mode, junk)
      [] value.type = "tabular_array" -> encode_tabular_array(value, indent_level, junk)

toon_encode(value, indent_level, junk) == encode_value(value, indent_level, FALSE, junk)

---------------------------------------------------------------------------
(* JSON bridge (toon_json.c)                                               *)

\* the escapes of the TOON_STRING case
JsonEscapeChar(c) ==
    CASE c = QUOTE -> <<BACKSLASH, QUOTE>>
      [] c = BACKSLASH -> <<BACKSLASH, BACKSLASH>>
      [] c = NL -> <<BACKSLASH, "n">>
      [] c = CR -> <<BACKSLASH, "r">>
      [] c = TAB -> <<BACKSLASH, "t">>
      [] OTHER -> <<c>>

\* the C string returned, for trees that fit the buffer of 65536 bytes
RECURSIVE toon_to_json(_)
toon_to_json(value) ==
    CASE value = NULLPTR -> <<"n", "u", "l", "l">>
      [] value.type = "null" -> <<"n", "u", "l", "l">>
      [] value.type = "boolean" ->
            IF value.boolean THEN <<"t", "r", "u", "e">> ELSE <<"f", "a", "l", "s", "e">>
      [] value.type = "number" -> FormatNumber(value.number)
      [] value.type = "string" ->
            <<QUOTE>>
               \o Concat([i \in 1..Len(value.string) |-> JsonEscapeChar(value.string[i])])
               \o <<QUOTE>>
      [] value.type = "array" ->
            <<"[">>
               \o JoinWith([i \in 1..Len(value.elements) |-> toon_to_json(value.elements[i])],
                           <<",">>)
               \o <<"]">>
      [] value.type = "object" ->
            <<"{">>
               \o JoinWith([i \in 1..Len(value.entries) |->
                               <<QUOTE>> \o value.entries[i].key \o <<QUOTE, ":">>
                                  \o toon_to_json(value.entries[i].value)],
                           <<",">>)
               \o <<"}">>
      [] value.type = "tabular_array" ->
            <<"[">>
               \o JoinWith([row \in 1..Len(value.rows) |->
                               <<"{">>
                                  \o JoinWith([col \in 1..Len(value.headers) |->
                                                  <<QUOTE>> \o value.headers[col] \o <<QUOTE, ":">>
                                                     \o toon_to_json(value.rows[row][col])],
                                              <<",">>)
                                  \o <<"}">>],
                           <<",">>)
               \o <<"]">>

\* the JsonParser struct: current is an index into the text, error the
\* message (set FALSE for NULL); fault is set once a call has gone through a
\* NULL pointer, where the process ends
JsonParser(cur) == [current |-> cur, error |-> NoError, fault |-> FALSE]

\* jp->error = strdup(message): the last message stays
JsonError(jp, message) ==
    [jp EXCEPT !.error = [set |-> TRUE, message |-> message, line |-> 0, column |-> 0]]

skip_json_whitespace(js, jp) == [jp EXCEPT !.current = SkipSpaces(js, @)]

\* strncmp(jp->current, str, strlen(str)) == 0
json_match(js, jp, str) == \A k \in 1..Len(str) : At(js, jp.current + k - 1) = str[k]

json_peek(js, jp) == At(js, jp.current)

\* the parser after json_consume(); the character consumed is json_peek before it
json_consume(js, jp) ==
    IF json_peek(js, jp) = NUL THEN jp ELSE [jp EXCEPT !.current = @ + 1]

JsonUnescape(c) ==
    CASE c = "n" -> NL
      [] c = "r" -> CR
      [] c = "t" -> TAB
      [] OTHER -> c

\* the while (json_peek(jp) != '"' && json_peek(jp) != '\0') loop; a '\0'
\* stored after a backslash at the end of the text ends the string there
RECURSIVE JsonStringBody(_, _, _)
JsonStringBody(js, jp, buf) ==
    Bind(json_peek(js, jp), LAMBDA c :
        IF c = QUOTE \/ c = NUL THEN [jp |-> jp, buf |-> buf]
        ELSE IF c = BACKSLASH
        THEN Bind(json_consume(js, jp), LAMBDA j1 :
                 IF json_peek(js, j1) = NUL THEN [jp |-> j1, buf |-> buf]
                 ELSE JsonStringBody(js, json_consume(js, j1),
                          IF Len(buf) < StringBufMax
                          THEN Append(buf, JsonUnescape(json_peek(js, j1))) ELSE buf))
        ELSE JsonStringBody(js, json_consume(js, jp),
                 IF Len(buf) < StringBufMax THEN Append(buf, c) ELSE buf))

parse_json_string(js, jp) ==
    IF json_peek(js, jp) # QUOTE
    THEN [jp |-> JsonError(json_consume(js, jp), "Expected '\"'"), str |-> NullStr]
    ELSE Bind(JsonStringBody(js, json_consume(js, jp), <<>>), LAMBDA b :
             IF json_peek(js, b.jp) # QUOTE
             THEN [jp |-> JsonError(json_consume(js, b.jp), "Expected closing '\"'"),
                   str |-> NullStr]
             ELSE [jp |-> json_consume(js, b.jp), str |-> CStr(b.buf)])

RECURSIVE StripLeadingZeros(_)
StripLeadingZeros(d) ==
    IF d # <<>> /\ d[1] = "0" THEN StripLeadingZeros(Tail(d)) ELSE d

\* the digits d with e of them behind the point, the zeros at the end of the
\* fraction dropped
RECURSIVE NormalizeDigits(_, _)
NormalizeDigits(d, e) ==
    IF e > 0 /\ d # <<>> /\ d[Len(d)] = "0"
    THEN NormalizeDigits(SubSeq(d, 1, Len(d) - 1), e - 1)
    ELSE [d |-> d, e |-> IF d = <<>> THEN 0 ELSE e]

\* strtod(buffer, NULL) of a buffer of at most fifteen significant digits: an
\* optional sign, digits with an optional fraction, an optional exponent; 0
\* when no digit follows the sign
StrtodValue(s) ==
    Bind(At(s, 1) = "-", LAMBDA neg :
    Bind(IF At(s, 1) \in {"-", "+"} THEN 2 ELSE 1, LAMBDA i :
    Bind(ScanDigits(s, i), LAMBDA a :
    Bind(IF At(s, a) = "." THEN ScanDigits(s, a + 1) ELSE a, LAMBDA b :
    Bind(IF b > a THEN b - a - 1 ELSE 0, LAMBDA nfrac :
    IF (a - i) + nfrac = 0 THEN Dec(0, 0) ELSE
    Bind(IF At(s, b) \in {"e", "E"}
            /\ isdigit(At(s, IF At(s, b + 1) \in {"-", "+"} THEN b + 2 ELSE b + 1))
         THEN atoi(s, b + 1) ELSE 0, LAMBDA exp :
    Bind(SubSeq(s, i, a - 1) \o (IF nfrac > 0 THEN SubSeq(s, a + 1, b - 1) ELSE <<>>)
            \o [k \in 1..(IF exp > nfrac THEN exp - nfrac ELSE 0) |-> "0"], LAMBDA all :
    Bind(NormalizeDigits(StripLeadingZeros(all), IF exp > nfrac THEN 0 ELSE nfrac - exp),
         LAMBDA n :
    Bind(IF Len(n.d) > 9 THEN 9 ELSE Len(n.d), LAMBDA w :
    Bind(AccDigits(SubSeq(n.d, 1, w), 1, 0), LAMBDA m :
        DecX(IF neg THEN 0 - m ELSE m, SubSeq(n.d, w + 1, Len(n.d)), n.e)))))))))))

\* while (remaining > 0 && (isdigit(c) || c == '.' || c == 'e' || c == 'E'
\*                          || c == '+' || c == '-'))
RECURSIVE JsonNumberBody(_, _, _)
JsonNumberBody(js, jp, buf) ==
    Bind(json_peek(js, jp), LAMBDA c :
        IF Len(buf) < NumberBufMax /\ (isdigit(c) \/ c \in {".", "e", "E", "+", "-"})
        THEN JsonNumberBody(js, json_consume(js, jp), Append(buf, c))
        ELSE [jp |-> jp, buf |-> buf])

parse_json_number(js, jp) ==
    Bind(json_peek(js, jp) = "-", LAMBDA neg :
    Bind(JsonNumberBody(js, IF neg THEN json_consume(js, jp) ELSE jp,
                        IF neg THEN <<"-">> ELSE <<>>), LAMBDA b :
        [jp |-> b.jp, v |-> StrtodValue(b.buf)]))

JsonMaxElements == 256
JsonMaxEntries == 256

\* what a parse function hands back: the parser after it and the value
\* returned, NULLPTR for NULL
JsonReturn(jp, v) == [jp |-> jp, v |-> v]

\* a read through a NULL pointer: the call does not return
JsonFault(jp) == JsonReturn([jp EXCEPT !.fault = TRUE], NULLPTR)

RECURSIVE parse_json_value(_, _)
RECURSIVE JsonElementsLoop(_, _, _)
RECURSIVE JsonEntriesLoop(_, _, _)

\* while (json_peek(jp) != ']' && json_peek(jp) != '\0' && length < 256); a
\* pass that consumes nothing is repeated as it is until the array is full
JsonElementsLoop(js, jp, elements) ==
    IF jp.fault \/ json_peek(js, jp) = "]" \/ json_peek(js, jp) = NUL
          \/ Len(elements) >= JsonMaxElements
    THEN [jp |-> jp, elements |-> elements]
    ELSE Bind(parse_json_value(js, jp), LAMBDA e :
         Bind(skip_json_whitespace(js, e.jp), LAMBDA j1 :
         Bind(IF json_peek(js, j1) = ","
              THEN skip_json_whitespace(js, json_consume(js, j1)) ELSE j1, LAMBDA j2 :
             IF j2.current = jp.current /\ ~j2.fault
             THEN [jp |-> j2,
                   elements |-> elements
                                  \o [k \in 1..(JsonMaxElements - Len(elements)) |-> e.v]]
             ELSE JsonElementsLoop(js, j2, Append(elements, e.v)))))

\* for (i = 1; i < length; i++) if (elements[i]->type != TOON_OBJECT ||
\*     elements[i]->value.object.length != first_len) { is_tabular = false; break; }
\* "tabular", "array", or "fault" when an element read is NULL
RECURSIVE UniformObjects(_, _, _)
UniformObjects(elements, i, first_len) ==
    IF i > Len(elements) THEN "tabular"
    ELSE IF elements[i] = NULLPTR THEN "fault"
    ELSE IF elements[i].type # "object" \/ Len(elements[i].entries) # first_len THEN "array"
    ELSE UniformObjects(elements, i + 1, first_len)

\* the decision of parse_json_array on the elements read
TabularCheck(elements) ==
    IF Len(elements) > 0 /\ elements[1] = NULLPTR THEN "fault"
    ELSE IF Len(elements) > 1 /\ elements[1].type = "object"
    THEN Bind(UniformObjects(elements, 2, Len(elements[1].entries)), LAMBDA u :
             IF u = "tabular" /\ Len(elements[1].entries) = 0 THEN "array" ELSE u)
    ELSE "array"

\* rows taken from the objects by the order of the headers' keys, a cell being
\* the entry of its header's name
RowsByKey(elements) ==
    [row \in 1..Len(elements) |->
        [col \in 1..Len(elements[1].entries) |->
            Bind(elements[1].entries[col].key, LAMBDA key :
            Bind(elements[row].entries, LAMBDA entries :
                IF \E i \in 1..Len(entries) : entries[i].key = key
                THEN entries[CHOOSE i \in 1..Len(entries) : entries[i].key = key].value
                ELSE Null))]]

\* rows[row][col] = elements[row]->value.object.entries[col].value
RowsByPosition(elements) ==
    [row \in 1..Len(elements) |->
        [col \in 1..Len(elements[1].entries) |-> elements[row].entries[col].value]]

parse_json_array(js, jp) ==
    IF json_peek(js, jp) # "["
    THEN JsonReturn(JsonError(json_consume(js, jp), "Expected '['"), NULLPTR)
    ELSE Bind(JsonElementsLoop(js, skip_json_whitespace(js, json_consume(js, jp)), <<>>),
              LAMBDA el :
         IF el.jp.fault THEN JsonFault(el.jp)
         ELSE IF json_peek(js, el.jp) # "]"
         THEN JsonReturn(JsonError(json_consume(js, el.jp), "Expected ']'"), NULLPTR)
         ELSE Bind(TabularCheck(el.elements), LAMBDA kind :
              IF kind = "fault" THEN JsonFault(json_consume(js, el.jp))
              ELSE IF kind = "tabular"
              THEN JsonReturn(json_consume(js, el.jp),
                              Tab([i \in 1..Len(el.elements[1].entries) |->
                                      el.elements[1].entries[i].key],
                                  RowsByPosition(el.elements)))
              ELSE JsonReturn(json_consume(js, el.jp), Arr(el.elements))))

\* the while (json_peek(jp) != '}' && json_peek(jp) != '\0' && length < 256)
\* loop; failed is set where the function returns NULL from inside the loop
JsonEntriesLoop(js, jp, entries) ==
    IF jp.fault \/ json_peek(js, jp) = "}" \/ json_peek(js, jp) = NUL
          \/ Len(entries) >= JsonMaxEntries
    THEN [jp |-> jp, entries |-> entries, failed |-> FALSE]
    ELSE Bind(parse_json_string(js, skip_json_whitespace(js, jp)), LAMBDA key :
         IF key.str.null THEN [jp |-> key.jp, entries |-> entries, failed |-> TRUE] ELSE
         Bind(skip_json_whitespace(js, key.jp), LAMBDA j1 :
         IF json_peek(js, j1) # ":"
         THEN [jp |-> JsonError(json_consume(js, j1), "Expected ':'"),
               entries |-> entries, failed |-> TRUE] ELSE
         Bind(parse_json_value(js, skip_json_whitespace(js, json_consume(js, j1))),
              LAMBDA e :
         Bind(skip_json_whitespace(js, e.jp), LAMBDA j2 :
             JsonEntriesLoop(js,
                 IF json_peek(js, j2) = ","
                 THEN skip_json_whitespace(js, json_consume(js, j2)) ELSE j2,
                 Append(entries, Entry(key.str.chars, e.v)))))))

parse_json_object(js, jp) ==
    IF json_peek(js, jp) # "{"
    THEN JsonReturn(JsonError(json_consume(js, jp), "Expected '{'"), NULLPTR)
    ELSE Bind(JsonEntriesLoop(js, skip_json_whitespace(js, json_consume(js, jp)), <<>>),
              LAMBDA el :
         IF el.jp.fault THEN JsonFault(el.jp)
         ELSE IF el.failed THEN JsonReturn(el.jp, NULLPTR)
         ELSE IF json_peek(js, el.jp) # "}"
         THEN JsonReturn(JsonError(json_consume(js, el.jp), "Expected '}'"), NULLPTR)
         ELSE JsonReturn(json_consume(js, el.jp), Obj(el.entries)))

parse_json_value(js, jp0) ==
    Bind(skip_json_whitespace(js, jp0), LAMBDA jp :
    Bind(json_peek(js, jp), LAMBDA c :
        IF c = QUOTE
        THEN Bind(parse_json_string(js, jp), LAMBDA q : JsonReturn(q.jp, StrValue(q.str)))
        ELSE IF c = "{" THEN parse_json_object(js, jp)
        ELSE IF c = "[" THEN parse_json_array(js, jp)
        ELSE IF json_match(js, jp, <<"t", "r", "u", "e">>)
        THEN JsonReturn([jp EXCEPT !.current = @ + 4], Bool(TRUE))
        ELSE IF json_match(js, jp, <<"f", "a", "l", "s", "e">>)
        THEN JsonReturn([jp EXCEPT !.current = @ + 5], Bool(FALSE))
        ELSE IF json_match(js, jp, <<"n", "u", "l", "l">>)
        THEN JsonReturn([jp EXCEPT !.current = @ + 4], Null)
        ELSE IF isdigit(c) \/ c = "-" THEN parse_json_number(js, jp)
        ELSE JsonReturn(JsonError(jp, "Unexpected character"), NULLPTR)))

\* what json_to_toon hands back: the value returned (NULLPTR for NULL) and
\* *error, or fault when the call went through a NULL pointer
json_to_toon(json_string) ==
    Bind(parse_json_value(json_string, JsonParser(1)), LAMBDA r :
        IF r.jp.fault THEN [value |-> NULLPTR, error |-> NoError, fault |-> TRUE]
        ELSE IF r.jp.error.set THEN [value |-> NULLPTR, error |-> r.jp.error, fault |-> FALSE]
        ELSE [value |-> r.v, error |-> NoError, fault |-> FALSE])

---------------------------------------------------------------------------
(* Path engine (toon_path.c)                                               *)

SegBufMax == 255

\* a result pointer: NULL, or the node at loc below the node the call was given
NullRef == [null |-> TRUE, loc |-> <<>>]
Ref(loc) == [null |-> FALSE, loc |-> loc]
Under(i, r) == IF r.null THEN NullRef ELSE Ref(<<i>> \o r.loc)

Path(segs) == [null |-> FALSE, segments |-> segs, num_segments |-> Len(segs)]
NullPath == [null |-> TRUE, segments |-> <<>>, num_segments |-> 0]

\* while (*p && *p != '.' && *p != '[' && i < 255)
RECURSIVE NameEnd(_, _, _)
NameEnd(s, p, i) ==
    IF At(s, p) # NUL /\ At(s, p) # "." /\ At(s, p) # "[" /\ i < SegBufMax
    THEN NameEnd(s, p + 1, i + 1)
    ELSE p

\* while (*p && *p != ']' && i < 255)
RECURSIVE IndexEnd(_, _, _)
IndexEnd(s, p, i) ==
    IF At(s, p) # NUL /\ At(s, p) # "]" /\ i < SegBufMax
    THEN IndexEnd(s, p + 1, i + 1)
    ELSE p

\* the while (*p) loop of path_parse, from position p with segs collected so far
RECURSIVE ParseSegments(_, _, _)
ParseSegments(s, p, segs) ==
    IF At(s, p) = "."
    THEN LET e == NameEnd(s, p + 1, 0)
             segment == SubSeq(s, p + 1, e - 1)
         IN ParseSegments(s, e, IF Len(segment) > 0 THEN Append(segs, segment) ELSE segs)
    ELSE IF At(s, p) = "["
    THEN LET e == IndexEnd(s, p + 1, 0)
             segment == SubSeq(s, p + 1, e - 1)
             q == IF At(s, e) = "]" THEN e + 1 ELSE e
         IN ParseSegments(s, q, IF Len(segment) > 0
                                THEN Append(segs, <<"[">> \o segment \o <<"]">>)
                                ELSE segs)
    ELSE segs

path_parse(path_str) ==
    IF At(path_str, 1) # "$" THEN NullPath ELSE Path(ParseSegments(path_str, 2, <<>>))

\* index of the first entry whose key is key, 0 when there is none
FirstKey(entries, key) ==
    IF \E i \in 1..Len(entries) : entries[i].key = key
    THEN CHOOSE i \in 1..Len(entries) :
            /\ entries[i].key = key
            /\ \A j \in 1..(i - 1) : entries[j].key # key
    ELSE 0

\* an index taken as written, a negative one not counted from the end
IndexAsWritten(segment, length) == atoi(segment, 2)

\* int index = atoi(segment + 1); if (index < 0) index = length + index;
NormIndex(segment, length) ==
    LET index == atoi(segment, 2)
    IN IF index < 0 THEN ToInt32(length + index) ELSE index

\* segment_index counts from 1 here
RECURSIVE path_navigate(_, _, _)
path_navigate(node, path, segment_index) ==
    IF node = NULLPTR THEN NullRef
    ELSE IF segment_index > path.num_segments THEN Ref(<<>>)
    ELSE LET segment == path.segments[segment_index]
         IN IF segment[1] = "[" /\ node.type \notin {"array", "tabular_array"} THEN NullRef
            ELSE IF segment[1] = "[" /\ segment = <<"[", "*", "]">> THEN NullRef
            ELSE IF segment[1] = "[" /\ node.type = "array"
            THEN LET index == NormIndex(segment, Len(node.elements))
                 IN IF index < 0 \/ index >= Len(node.elements) THEN NullRef
                    ELSE Under(index + 1,
                               path_navigate(node.elements[index + 1], path, segment_index + 1))
            ELSE IF segment[1] = "[" THEN NullRef
            ELSE IF node.type = "object"
            THEN LET i == FirstKey(node.entries, segment)
                 IN IF i = 0 THEN NullRef
                    ELSE Under(i, path_navigate(node.entries[i].value, path, segment_index + 1))
            ELSE NullRef

toon_path_get(r, path_str) ==
    IF r = NULLPTR THEN NullRef
    ELSE IF path_str = <<"$">> THEN Ref(<<>>)
    ELSE LET path == path_parse(path_str)
         IN IF path.null THEN NullRef ELSE path_navigate(r, path, 1)

\* ToonValue *parent = root;
\* for (i = 0; i < num_segments - 1; i++) parent = path_navigate(parent, path, i);
RECURSIVE NavigateToParent(_, _, _, _)
NavigateToParent(r, parent, path, i) ==
    IF i > path.num_segments - 1 THEN parent
    ELSE LET next == path_navigate(ValueAt(r, parent.loc), path, i)
         IN IF next.null THEN NullRef
            ELSE NavigateToParent(r, Ref(parent.loc \o next.loc), path, i + 1)

\* the final segment of toon_path_set applied to the node at ploc
SetLast(r, ploc, last_segment, value) ==
    LET parent == ValueAt(r, ploc)
        fail == [ret |-> -1, root |-> r, freed |-> <<>>]
    IN IF last_segment[1] = "["
       THEN IF parent.type # "array" THEN fail
            ELSE LET index == NormIndex(last_segment, Len(parent.elements))
                 IN IF index < 0 \/ index >= Len(parent.elements) THEN fail
                    ELSE [ret |-> 0,
                          root |-> StoreAt(r, ploc, [parent EXCEPT !.elements[index + 1] = value]),
                          freed |-> toon_value_free(parent.elements[index + 1])]
       ELSE IF parent.type = "object"
       THEN LET i == FirstKey(parent.entries, last_segment)
            IN IF i > 0
               THEN [ret |-> 0,
                     root |-> StoreAt(r, ploc, [parent EXCEPT !.entries[i].value = value]),
                     freed |-> toon_value_free(parent.entries[i].value)]
               ELSE [ret |-> 0,
                     root |-> StoreAt(r, ploc,
                                [parent EXCEPT !.entries = Append(@, Entry(last_segment, value))]),
                     freed |-> <<>>]
       ELSE fail

\* a set without the `$` guards: the root itself is given the value
SetAlsoAtRoot(r, path_str, value) ==
    LET fail == [ret |-> -1, root |-> r, freed |-> <<>>]
        path == path_parse(path_str)
    IN IF r = NULLPTR \/ value = NULLPTR THEN fail
       ELSE IF path.null THEN fail
       ELSE IF path.num_segments = 0 THEN [ret |-> 0, root |-> value, freed |-> <<>>]
       ELSE LET parent == NavigateToParent(r, Ref(<<>>), path, 1)
            IN IF parent.null THEN fail
               ELSE SetLast(r, parent.loc, path.segments[path.num_segments], value)

toon_path_set(r, path_str, value) ==
    LET fail == [ret |-> -1, root |-> r, freed |-> <<>>]
        path == path_parse(path_str)
    IN IF r = NULLPTR \/ value = NULLPTR THEN fail
       ELSE IF path_str = <<"$">> THEN fail
       ELSE IF path.null \/ path.num_segments = 0 THEN fail
       ELSE LET parent == NavigateToParent(r, Ref(<<>>), path, 1)
            IN IF parent.null THEN fail
               ELSE SetLast(r, parent.loc, path.segments[path.num_segments], value)

\* a delete that fails every time, and drops the last element of an array
\* it was pointed at before it does
DeleteLastThenFail(r, ploc, last_segment) ==
    LET parent == ValueAt(r, ploc)
    IN IF last_segment[1] = "[" /\ parent.type = "array" /\ Len(parent.elements) > 0
       THEN [ret |-> -1,
             root |-> StoreAt(r, ploc, [parent EXCEPT !.elements = RemoveIndex(@, Len(@))]),
             freed |-> <<>>]
       ELSE [ret |-> -1, root |-> r, freed |-> <<>>]

\* the final segment of toon_path_delete applied to the node at ploc
DeleteLast(r, ploc, last_segment) ==
    LET parent == ValueAt(r, ploc)
        fail == [ret |-> -1, root |-> r, freed |-> <<>>]
    IN IF last_segment[1] = "["
       THEN IF parent.type # "array" THEN fail
            ELSE LET index == NormIndex(last_segment, Len(parent.elements))
                 IN IF index < 0 \/ index >= Len(parent.elements) THEN fail
                    ELSE [ret |-> 0,
                          root |-> StoreAt(r, ploc,
                                     [parent EXCEPT !.elements = RemoveIndex(@, index + 1)]),
                          freed |-> toon_value_free(parent.elements[index + 1])]
       ELSE IF parent.type = "object"
       THEN LET i == FirstKey(parent.entries, last_segment)
            IN IF i > 0
               THEN [ret |-> 0,
                     root |-> StoreAt(r, ploc, [parent EXCEPT !.entries = RemoveIndex(@, i)]),
                     freed |-> toon_value_free(parent.entries[i].value)]
               ELSE fail
       ELSE fail

toon_path_delete(r, path_str) ==
    LET fail == [ret |-> -1, root |-> r, freed |-> <<>>]
        path == path_parse(path_str)
    IN IF r = NULLPTR THEN fail
       ELSE IF path_str = <<"$">> THEN fail
       ELSE IF path.null \/ path.num_segments = 0 THEN fail
       ELSE LET parent == NavigateToParent(r, Ref(<<>>), path, 1)
            IN IF parent.null THEN fail
               ELSE DeleteLast(r, parent.loc, path.segments[path.num_segments])

---------------------------------------------------------------------------
(* Operations (toon_operations.c)                                          *)

\* a copy that hands out the source's own nodes
ShallowCopy(src) == src

\* a deep copy: a new node of the same type with copies of what it holds
RECURSIVE toon_value_copy(_)
toon_value_copy(src) ==
    CASE src = NULLPTR -> NULLPTR
      [] src.type = "null" -> Null
      [] src.type = "boolean" -> Bool(src.boolean)
      [] src.type = "number" -> [type |-> "number", number |-> src.number]
      [] src.type = "string" -> Str(src.string)
      [] src.type = "array" ->
            Arr([i \in 1..Len(src.elements) |-> toon_value_copy(src.elements[i])])
      [] src.type = "object" ->
            Obj([i \in 1..Len(src.entries) |->
                    Entry(src.entries[i].key, toon_value_copy(src.entries[i].value))])
      [] src.type = "tabular_array" ->
            Tab(src.headers,
                [r \in 1..Len(src.rows) |->
                    [c \in 1..Len(src.headers) |-> toon_value_copy(src.rows[r][c])]])

RECURSIVE toon_merge(_, _)
RECURSIVE MergeLoop(_, _, _, _)

\* a merge that also goes into an entry when only the target's value is an
\* Object, keeping it
MergeLoopKeepingObjects(entries, source_entries, i, freed) ==
    IF i > Len(source_entries) THEN [entries |-> entries, freed |-> freed]
    ELSE Bind(source_entries[i].value, LAMBDA src_value :
         Bind(FirstKey(entries, source_entries[i].key), LAMBDA j :
             IF j > 0
             THEN IF entries[j].value.type = "object"
                  THEN Bind(toon_merge(entries[j].value, src_value), LAMBDA m :
                           MergeLoop([entries EXCEPT ![j].value = m.target],
                                     source_entries, i + 1, freed \o m.freed))
                  ELSE MergeLoop([entries EXCEPT ![j].value = toon_value_copy(src_value)],
                                 source_entries, i + 1,
                                 freed \o toon_value_free(entries[j].value))
             ELSE MergeLoop(Append(entries,
                                   Entry(source_entries[i].key, toon_value_copy(src_value))),
                            source_entries, i + 1, freed)))

\* for (i = 0; i < source->value.object.length; i++): the target's entries
\* after the source entries from i on are merged in, and the nodes freed on
\* the way, behind those freed before
MergeLoop(entries, source_entries, i, freed) ==
    IF i > Len(source_entries) THEN [entries |-> entries, freed |-> freed]
    ELSE Bind(source_entries[i].value, LAMBDA src_value :
         Bind(FirstKey(entries, source_entries[i].key), LAMBDA j :
             IF j > 0
             THEN IF entries[j].value.type = "object" /\ src_value.type = "object"
                  THEN Bind(toon_merge(entries[j].value, src_value), LAMBDA m :
                           MergeLoop([entries EXCEPT ![j].value = m.target],
                                     source_entries, i + 1, freed \o m.freed))
                  ELSE MergeLoop([entries EXCEPT ![j].value = toon_value_copy(src_value)],
                                 source_entries, i + 1,
                                 freed \o toon_value_free(entries[j].value))
             ELSE MergeLoop(Append(entries,
                                   Entry(source_entries[i].key, toon_value_copy(src_value))),
                            source_entries, i + 1, freed)))

\* a merge whose type check lets a source through that is no Object: nothing
\* is merged and success returned
MergeUnlessBothWrong(target, source) ==
    IF target = NULLPTR \/ source = NULLPTR
    THEN [ret |-> -1, target |-> target, freed |-> <<>>]
    ELSE IF target.type # "object" /\ source.type # "object"
    THEN [ret |-> -1, target |-> target, freed |-> <<>>]
    ELSE IF target.type # "object" \/ source.type # "object"
    THEN [ret |-> 0, target |-> target, freed |-> <<>>]
    ELSE Bind(MergeLoop(target.entries, source.entries, 1, <<>>), LAMBDA l :
             [ret |-> 0, target |-> [target EXCEPT !.entries = l.entries],
              freed |-> l.freed])

\* the return value and the target after the call
toon_merge(target, source) ==
    IF target = NULLPTR \/ source = NULLPTR
    THEN [ret |-> -1, target |-> target, freed |-> <<>>]
    ELSE IF target.type # "object" \/ source.type # "object"
    THEN [ret |-> -1, target |-> target, freed |-> <<>>]
    ELSE Bind(MergeLoop(target.entries, source.entries, 1, <<>>), LAMBDA l :
             [ret |-> 0, target |-> [target EXCEPT !.entries = l.entries],
              freed |-> l.freed])

\* toon_validate: TRUE when the structure is sound
RECURSIVE toon_validate(_)
toon_validate(value) ==
    CASE value = NULLPTR -> FALSE
      [] value.type \in {"null", "boolean", "number"} -> TRUE
      [] value.type = "string" -> value # StrNull
      [] value.type = "array" ->
            \A i \in 1..Len(value.elements) : toon_validate(value.elements[i])
      [] value.type = "object" ->
            \A i \in 1..Len(value.entries) : toon_validate(value.entries[i].value)
      [] value.type = "tabular_array" ->
            /\ Len(value.headers) # 0
            /\ \A r \in 1..Len(value.rows) :
                  \A c \in 1..Len(value.headers) : toon_validate(value.rows[r][c])
      [] OTHER -> FALSE


\* the first message of a sequence of results, "" when all of them passed
FirstMessage(messages) ==
    IF \A i \in 1..Len(messages) : messages[i] = "" THEN ""
    ELSE messages[CHOOSE i \in 1..Len(messages) :
                     /\ messages[i] # ""
                     /\ \A k \in 1..(i - 1) : messages[k] = ""]

\* toon_validate: what *error holds when it returns, "" when nothing was
\* stored there
RECURSIVE validate_error(_)
validate_error(value) ==
    CASE value = NULLPTR -> "NULL value"
      [] value.type \in {"null", "boolean", "number"} -> ""
      [] value.type = "string" -> IF value = StrNull THEN "String value is NULL" ELSE ""
      [] value.type = "array" ->
            FirstMessage([i \in 1..Len(value.elements) |-> validate_error(value.elements[i])])
      [] value.type = "object" ->
            FirstMessage([i \in 1..Len(value.entries) |->
                            validate_error(value.entries[i].value)])
      [] value.type = "tabular_array" ->
            IF Len(value.headers) = 0 THEN "Tabular array has no headers"
            ELSE FirstMessage(FlatSeq([i \in 1..Len(value.rows) |->
                                 [j \in 1..Len(value.headers) |->
                                     validate_error(value.rows[i][j])]]))
      [] OTHER -> "Unknown type"

---------------------------------------------------------------------------
(* Inputs of the document machine                                          *)

MaxTokens == 2
MaxOps == 1

k_a == <<"a">>
k_b == <<"b">>

\* {"a":[1,2,3]}, [10,20,30], {"a":{"b":1},"b":3}, {"a":{"b":{"b":1}}},
\* [[1,2],[3]], 5 and a one-row table
Roots ==
    { Obj(<<Entry(k_a, Arr(<<Num(1), Num(2), Num(3)>>))>>),
      Arr(<<Num(10), Num(20), Num(30)>>),
      Obj(<<Entry(k_a, Obj(<<Entry(k_b, Num(1))>>)), Entry(k_b, Num(3))>>),
      Obj(<<Entry(k_a, Obj(<<Entry(k_b, Obj(<<Entry(k_b, Num(1))>>))>>))>>),
      Arr(<<Arr(<<Num(1), Num(2)>>), Arr(<<Num(3)>>)>>),
      Num(5),
      Tab(<<k_a>>, << <<Num(1)>> >>) }

SetValues == { Num(7), Obj(<<Entry(k_b, Num(8))>>) }

\* value arguments of TOON.SET: `7`, `b: 8` and a string that never closes
ValueTexts ==
    { <<"7">>, <<"b", ":", " ", "8", NL>>, <<QUOTE, "x">> }

\* the byte in memory before a value argument
UnderBytes == {"]", "x"}

Keys == {k_a, k_b}
IndexValues == {-4, -1, 0, 1, 3, 5}

KeyToken(k) == <<".">> \o k
IndexToken(i) == <<"[">> \o ltoa(i) \o <<"]">>

\* well-formed segments, and pieces of text the grammar does not have
GoodTokens == {KeyToken(k) : k \in Keys} \cup {IndexToken(i) : i \in IndexValues}
BadTokens == { <<"[", "*", "]">>, <<"[", "x", "]">>, <<".">>, <<"x">>, <<" ">> }
Tokens == GoodTokens \cup BadTokens

RECURSIVE TokenStrings(_)
TokenStrings(n) ==
    IF n = 0 THEN {<<>>}
    ELSE LET S == TokenStrings(n - 1) IN S \cup {s \o t : s \in S, t \in Tokens}

Paths ==
    {<<"$">> \o s : s \in TokenStrings(MaxTokens)}
        \cup TokenStrings(1) \cup {<<" ", "$">>, <<"a">>, <<"a", "$">>}

---------------------------------------------------------------------------
(* The document machine: one key of the keyspace.  root is doc->root of the *)
(* document stored at the key, NULLPTR while the key is empty; op is the   *)
(* call in progress with what it handed back.                              *)

NoResult == [value |-> NULLPTR, error |-> NoError]

NoOp == [name |-> "none", path |-> <<>>, value |-> NULLPTR, ret |-> 0,
         ref |-> NullRef, before |-> NULLPTR, reply |-> "", error |-> NoError,
         replicated |-> FALSE, freed |-> <<>>]

Init ==
    /\ root \in Roots \cup {NULLPTR}
    /\ pc = "idle"
    /\ op = NoOp
    /\ nops = 0
    /\ val = NULLPTR
    /\ text = <<>>
    /\ dec = NoResult
    /\ cpc = "off"
    /\ heap = <<>>
    /\ json = <<>>
    /\ fault = ""
    /\ char_signed = TRUE

\* a call of toon_path_get on the document, with a path of paths
GetCall(paths) ==
    /\ pc = "idle"
    /\ root # NULLPTR
    /\ \E p \in paths :
          op' = [NoOp EXCEPT !.name = "get", !.path = p,
                             !.ref = toon_path_get(root, p), !.before = root]
    /\ pc' = "done"
    /\ UNCHANGED <<root, nops>>
    /\ UNCHANGED codecVars

\* a call of toon_path_set on the document, while fewer than limit mutations
\* have succeeded
SetCall(paths, values, limit) ==
    /\ pc = "idle"
    /\ root # NULLPTR
    /\ nops < limit
    /\ \E p \in paths, v \in values :
          LET r == toon_path_set(root, p, v)
          IN /\ root' = r.root
             /\ op' = [NoOp EXCEPT !.name = "set", !.path = p, !.value = v,
                                   !.ret = r.ret, !.before = root, !.freed = r.freed]
             /\ nops' = IF r.ret = 0 THEN nops + 1 ELSE nops
    /\ pc' = "done"
    /\ UNCHANGED codecVars

\* a call of toon_path_delete on the document
DeleteCall(paths, limit) ==
    /\ pc = "idle"
    /\ root # NULLPTR
    /\ nops < limit
    /\ \E p \in paths :
          LET r == toon_path_delete(root, p)
          IN /\ root' = r.root
             /\ op' = [NoOp EXCEPT !.name = "delete", !.path = p, !.ret = r.ret,
                                   !.before = root, !.freed = r.freed]
             /\ nops' = IF r.ret = 0 THEN nops + 1 ELSE nops
    /\ pc' = "done"
    /\ UNCHANGED codecVars

\* the commands hand doc->root of an existing document to the primitives
PathGet == GetCall(Paths)

PathSet == SetCall(Paths, SetValues, MaxOps)

PathDelete == DeleteCall(Paths, MaxOps)

\* TOON.SET key path value on a key that is empty or holds a document: the
\* value is decoded, the document created if the key is empty, then the root
\* pointer is replaced for `$` and toon_path_set called for any other path
ToonSet_RedisCommand ==
    /\ pc = "idle"
    /\ nops < MaxOps
    /\ \E path \in Paths, value_str \in ValueTexts, under \in UnderBytes :
          LET d == toon_decode(value_str, under)
              doc == IF root = NULLPTR THEN Null ELSE root
              r == toon_path_set(doc, path, d.value)
              call == [NoOp EXCEPT !.name = "TOON.SET", !.path = path,
                                   !.value = d.value, !.before = root]
          IN IF d.value = NULLPTR
             THEN /\ root' = root
                  /\ op' = [call EXCEPT !.ret = -1, !.error = d.error,
                                        !.reply = IF d.error.set THEN "decode error"
                                                  ELSE "ERR invalid TOON format"]
                  /\ nops' = nops
             ELSE IF path = <<"$">>
             THEN /\ root' = d.value
                  /\ op' = [call EXCEPT !.reply = "OK", !.replicated = TRUE,
                                        !.freed = toon_value_free(doc)]
                  /\ nops' = nops + 1
             ELSE IF r.ret # 0
             THEN /\ root' = doc
                  /\ op' = [call EXCEPT !.ret = -1, !.reply = "ERR invalid path",
                                        !.freed = toon_value_free(d.value)]
                  /\ nops' = nops
             ELSE /\ root' = r.root
                  /\ op' = [call EXCEPT !.reply = "OK", !.replicated = TRUE,
                                        !.freed = r.freed]
                  /\ nops' = nops + 1
    /\ pc' = "done"
    /\ UNCHANGED codecVars

\* the caller takes the result; the next call starts from the document alone
Return ==
    /\ pc = "done"
    /\ pc' = "idle"
    /\ op' = NoOp
    /\ UNCHANGED <<root, nops>>
    /\ UNCHANGED codecVars

Next ==
    \/ PathGet
    \/ PathSet
    \/ PathDelete
    \/ ToonSet_RedisCommand
    \/ Return

Spec == Init /\ [][Next]_vars

---------------------------------------------------------------------------
(* The merge machine: toon_merge applied to a document held in root and a  *)
(* source tree of its own                                                  *)

k_x == <<"x">>
k_y == <<"y">>

\* values of entries: scalars, arrays, a table and objects
MergeLeaves ==
    { Num(1), Num(3), Str(<<"s">>), Arr(<<Num(1), Num(2)>>), Arr(<<Num(9)>>),
      Obj(<<>>), Obj(<<Entry(k_x, Num(1))>>), Obj(<<Entry(k_y, Num(2))>>),
      Obj(<<Entry(k_y, Num(2)), Entry(k_x, Arr(<<Num(5)>>))>>),
      Obj(<<Entry(k_x, Obj(<<Entry(k_y, Num(1))>>))>>),
      Obj(<<Entry(k_x, Obj(<<Entry(k_x, Num(7))>>))>>) }

\* the orders in which an object of the inputs holds its keys
KeyLists == { <<>>, <<k_a>>, <<k_b>>, <<k_a, k_b>>, <<k_b, k_a>> }

MergeObjects ==
    UNION { {Obj([i \in 1..Len(ks) |-> Entry(ks[i], vs[i])]) :
                vs \in [1..Len(ks) -> MergeLeaves]} : ks \in KeyLists }

\* what is no Object
NonObjects ==
    { Null, Bool(TRUE), Num(5), Str(<<"s">>), Arr(<<Num(1), Num(2)>>),
      Arr(<<Obj(<<Entry(k_a, Num(1))>>)>>), Tab(<<k_a>>, << <<Num(1)>> >>) }

MergeTargets ==
    { Obj(<<Entry(k_a, v)>>) : v \in MergeLeaves }
        \cup { Obj(<<Entry(k_a, Obj(<<Entry(k_y, Num(2))>>)), Entry(k_b, Num(3))>>),
               Obj(<<Entry(k_b, Num(3)), Entry(k_a, Arr(<<Num(1), Num(2)>>))>>),
               Obj(<<>>) }
        \cup NonObjects \cup {NULLPTR}

MergeSources == MergeObjects \cup NonObjects \cup {NULLPTR}

InitMerge ==
    /\ root \in MergeTargets
    /\ pc = "idle"
    /\ op = NoOp
    /\ nops = 0
    /\ val = NULLPTR
    /\ text = <<>>
    /\ dec = NoResult
    /\ cpc = "off"
    /\ heap = <<>>
    /\ json = <<>>
    /\ fault = ""
    /\ char_signed = TRUE

\* a call of toon_merge with the document as target
MergeCall(sources, limit) ==
    /\ pc = "idle"
    /\ nops < limit
    /\ \E source \in sources :
          LET r == toon_merge(root, source)
          IN /\ root' = r.target
             /\ op' = [NoOp EXCEPT !.name = "merge", !.value = source, !.ret = r.ret,
                                   !.before = root, !.freed = r.freed]
             /\ nops' = IF r.ret = 0 THEN nops + 1 ELSE nops
    /\ pc' = "done"
    /\ UNCHANGED codecVars

Merge == MergeCall(MergeSources, MaxOps)

NextMerge ==
    \/ Merge
    \/ Return

SpecMerge == InitMerge /\ [][NextMerge]_vars

---------------------------------------------------------------------------
(* The library machine with named nodes: toon_path_get, toon_path_set,     *)
(* toon_path_delete and toon_merge called in sequence on one tree.  Every  *)
(* node that a caller allocated carries a name: owner tells whose it is,   *)
(* loc where it sat in the tree it came in                                 *)

MaxOwnedOps == 2

NodeName(owner, loc) == [owner |-> owner, loc |-> loc]

\* the tree v with its nodes named after owner
RECURSIVE Named(_, _, _)
Named(v, owner, loc) ==
    CASE v.type = "null" -> [type |-> "null", id |-> NodeName(owner, loc)]
      [] v.type = "boolean" ->
            [type |-> "boolean", boolean |-> v.boolean, id |-> NodeName(owner, loc)]
      [] v.type = "number" ->
            [type |-> "number", number |-> v.number, id |-> NodeName(owner, loc)]
      [] v.type = "string" ->
            [type |-> "string", string |-> v.string, id |-> NodeName(owner, loc)]
      [] v.type = "array" ->
            [type |-> "array",
             elements |-> [i \in 1..Len(v.elements) |->
                             Named(v.elements[i], owner, Append(loc, i))],
             id |-> NodeName(owner, loc)]
      [] v.type = "object" ->
            [type |-> "object",
             entries |-> [i \in 1..Len(v.entries) |->
                            Entry(v.entries[i].key,
                                  Named(v.entries[i].value, owner, Append(loc, i)))],
             id |-> NodeName(owner, loc)]
      [] v.type = "tabular_array" ->
            [type |-> "tabular_array", headers |-> v.headers,
             rows |-> [r \in 1..Len(v.rows) |->
                         [c \in 1..Len(v.rows[r]) |->
                             Named(v.rows[r][c], owner, loc \o <<r, c>>)]],
             id |-> NodeName(owner, loc)]

\* {"a":{"b":1},"a":2,"b":[1,2]} with the key a twice, [[1,2],[3]],
\* {"a":{"b":{"b":1}}}, {"a": a one-row table, "b": "s"} and
\* {"b":{"a":1},"a":[{"a":1}],"b":3}
OwnedRoots ==
    { Obj(<<Entry(k_a, Obj(<<Entry(k_b, Num(1))>>)), Entry(k_a, Num(2)),
            Entry(k_b, Arr(<<Num(1), Num(2)>>))>>),
      Arr(<<Arr(<<Num(1), Num(2)>>), Arr(<<Num(3)>>)>>),
      Obj(<<Entry(k_a, Obj(<<Entry(k_b, Obj(<<Entry(k_b, Num(1))>>))>>))>>),
      Obj(<<Entry(k_a, Tab(<<k_a>>, << <<Num(1)>> >>)), Entry(k_b, Str(<<"s">>))>>),
      Obj(<<Entry(k_b, Obj(<<Entry(k_a, Num(1))>>)),
            Entry(k_a, Arr(<<Obj(<<Entry(k_a, Num(1))>>)>>)),
            Entry(k_b, Num(3))>>),
      Obj(<<Entry(k_b, Obj(<<Entry(k_a, Num(1)), Entry(k_b, Num(2)), Entry(k_a, Num(3))>>)),
            Entry(k_a, Num(4))>>) }

OwnedPaths ==
    { <<"$">>, <<"a">>,
      <<"$">> \o KeyToken(k_a), <<"$">> \o KeyToken(k_b), <<"$">> \o KeyToken(k_x),
      <<"$">> \o KeyToken(k_a) \o KeyToken(k_b), <<"$">> \o KeyToken(k_b) \o KeyToken(k_a),
      <<"$">> \o KeyToken(k_a) \o KeyToken(k_x),
      <<"$">> \o IndexToken(0), <<"$">> \o IndexToken(-1), <<"$">> \o IndexToken(5),
      <<"$">> \o IndexToken(1) \o IndexToken(0),
      <<"$">> \o KeyToken(k_a) \o IndexToken(0),
      <<"$">> \o KeyToken(k_b) \o IndexToken(1),
      <<"$">> \o KeyToken(k_b) \o IndexToken(2) }

OwnedValues ==
    { Num(7), Obj(<<Entry(k_b, Num(8))>>), Arr(<<Obj(<<Entry(k_a, Num(1))>>)>>) }

\* merge sources: {"a":9}, {"a":{"b":2}}, {"b":[5],"x":{"y":1}}, {"x":1,"x":2}
\* with a key twice, {} and the number 5
OwnedSources ==
    { Obj(<<Entry(k_a, Num(9))>>),
      Obj(<<Entry(k_a, Obj(<<Entry(k_b, Num(2))>>))>>),
      Obj(<<Entry(k_b, Arr(<<Num(5)>>)), Entry(k_x, Obj(<<Entry(k_y, Num(1))>>))>>),
      Obj(<<Entry(k_x, Num(1)), Entry(k_x, Num(2))>>),
      Obj(<<>>),
      Num(5) }

\* the caller's trees of the call after nops mutations: each call brings
\* nodes of its own
ValueOwner == <<"value 1", "value 2", "value 3">>
SourceOwner == <<"source 1", "source 2", "source 3">>

InitOwned ==
    /\ root \in {Named(r, "tree", <<>>) : r \in OwnedRoots}
    /\ pc = "idle"
    /\ op = NoOp
    /\ nops = 0
    /\ val = NULLPTR
    /\ text = <<>>
    /\ dec = NoResult
    /\ cpc = "off"
    /\ heap = <<>>
    /\ json = <<>>
    /\ fault = ""
    /\ char_signed = TRUE

OwnedGet == GetCall(OwnedPaths)

OwnedSet ==
    SetCall(OwnedPaths, {Named(v, ValueOwner[nops + 1], <<>>) : v \in OwnedValues},
            MaxOwnedOps)

OwnedDelete == DeleteCall(OwnedPaths, MaxOwnedOps)

OwnedMerge ==
    MergeCall({Named(v, SourceOwner[nops + 1], <<>>) : v \in OwnedSources}, MaxOwnedOps)

NextOwned ==
    \/ OwnedGet
    \/ OwnedSet
    \/ OwnedDelete
    \/ OwnedMerge
    \/ Return

SpecOwned == InitOwned /\ [][NextOwned]_vars

---------------------------------------------------------------------------
(* The codec machine: toon_encode and toon_decode applied to bounded       *)
(* inputs                                                                  *)

MaxWidth == 2

SeqsUpTo(S, n) == UNION {[1..k -> S] : k \in 0..n}

s_hi == <<"h", "i">>
s_id == <<"i", "d">>
s_name == <<"n", "a", "m", "e">>
s_Alice == <<"A", "l", "i", "c", "e">>
s_Bob == <<"B", "o", "b">>

CodecScalars == { Null, Bool(TRUE), Num(42), Str(s_hi) }
CellValues == { Num(1), Str(s_Bob) }

FlatArrays == {Arr(es) : es \in SeqsUpTo(CodecScalars, MaxWidth)}

\* objects whose keys are a, b, ... in this order
KeyOrder == <<k_a, k_b, <<"c">>, <<"d">>>>
ObjectOf(vs) == Obj([i \in 1..Len(vs) |-> Entry(KeyOrder[i], vs[i])])
FlatObjects == {ObjectOf(vs) : vs \in SeqsUpTo(CodecScalars, MaxWidth)}

HeaderLists == { <<s_id>>, <<s_id, s_name>> }
TabDocs ==
    UNION { {[headers |-> hs, rows |-> rs] :
                rs \in SeqsUpTo([1..Len(hs) -> CellValues], MaxWidth)} : hs \in HeaderLists }
        \cup { [headers |-> <<s_id, s_name>>,
                rows |-> << <<Num(1), Str(s_Alice)>>, <<Num(2), Str(s_Bob)>> >>] }
Tables == {Tab(d.headers, d.rows) : d \in TabDocs}

\* containers holding containers
Inner ==
    { Num(42), Arr(<<>>), Arr(<<Num(1), Num(2)>>), Obj(<<>>), ObjectOf(<<Num(1)>>),
      Tab(<<s_id>>, << <<Num(1)>> >>) }
NestedArrays ==
    {Arr(es) : es \in SeqsUpTo(Inner, MaxWidth)}
        \cup { Arr(<<Arr(<<Arr(<<Num(1)>>), Num(2)>>)>>),
               Arr(<<Num(1), Arr(<<Arr(<<Arr(<<>>), Str(s_hi)>>)>>)>>) }
NestedObjects == {ObjectOf(vs) : vs \in SeqsUpTo(Inner, MaxWidth)}

s_hello == <<"h", "e", "l", "l", "o">>

\* strings: plain ones, the empty one, a keyword, numerals, blanks at an end,
\* structural and control characters, a non-ASCII letter, and plain text that
\* begins like a number or a quoted string
StringSamples ==
    { s_hello, s_hi, <<>>, <<"n", "u", "l", "l">>, <<"t", "r", "u", "e">>,
      <<"4", "2">>, <<"-", "1", ".", "5">>, <<"1", "e", "5">>, <<"1", "e">>,
      <<" ", "x">>, <<"x", " ">>, <<"a", " ", "b">>, <<"a", ",", "b">>, <<"a", ":", "b">>,
      <<"a", "[">>, <<"}">>, <<"a", NL, "b">>, <<"a", TAB, "b">>,
      <<"c", "a", "f", HIGH>>,
      <<"1", "2", "a", "b", "c">>, <<"-", "x">>, <<QUOTE, "h", "i">>,
      <<"a", QUOTE, "b">>, <<"a", BACKSLASH, "b">> }

Strings == {Str(s) : s \in StringSamples}
StringEntries == {Obj(<<Entry(k_a, v)>>) : v \in Strings}

\* a number of twelve significant digits, 1.23456789012, and its neighbours
WideNumbers == { DecX(123456789, <<"0", "1", "2">>, 11), Dec(123456789, 8) }

CodecValues ==
    CodecScalars \cup {Num(0), Num(-7), Bool(FALSE), Dec(15, 1)}
        \cup FlatArrays \cup FlatObjects \cup Tables \cup NestedArrays \cup NestedObjects
        \cup Strings \cup StringEntries \cup WideNumbers
        \cup {Arr(<<n>>) : n \in WideNumbers}

\* a table written out as a document: the `[n,]{h1,...,hk}:` line, then one
\* line of comma-separated cells per row
CellText(v) == IF v.type = "number" THEN ltoa(v.number.m) ELSE v.string
TabularText(d) ==
    <<"[">> \o ltoa(Len(d.rows)) \o <<",", "]", "{">> \o JoinWith(d.headers, <<",">>)
        \o <<"}", ":", NL>>
        \o Concat([r \in 1..Len(d.rows) |->
              JoinWith([c \in 1..Len(d.headers) |-> CellText(d.rows[r][c])], <<",">>)
                 \o <<NL>>])

\* the largest count declared and the largest number of values given
MaxCount == 3
MaxGiven == 3

\* the values 1, 2, ... given after a declared count, `per_line` on a line
GivenValues(from, to) == JoinWith([i \in 1..(to - from + 1) |-> ltoa(from + i - 1)], <<",">>)
GivenLines(m, per_line) ==
    Concat([r \in 1..((m + per_line - 1) \div per_line) |->
              GivenValues((r - 1) * per_line + 1,
                          IF r * per_line < m THEN r * per_line ELSE m) \o <<NL>>])

\* `[n]: 1,2,...,m`: a simple array that declares n elements and gives m
ArrayCountText(n, m) == <<"[">> \o ltoa(n) \o <<"]", ":", " ">> \o GivenValues(1, m)

\* the same array as the value of an entry
EntryCountText(n, m) == <<"a", ":", " ">> \o ArrayCountText(n, m)

\* `a: [n,]{h1,...,hk}:` and m values on lines of k: a table as the value of
\* an entry that declares n rows of k cells and gives m values
CountHeaders(k) == SubSeq(<<k_a, k_b>>, 1, k)
TableCountText(n, k, m) ==
    <<"a", ":", " ", "[">> \o ltoa(n) \o <<",", "]", "{">>
        \o JoinWith(CountHeaders(k), <<",">>) \o <<"}", ":", NL>>
        \o GivenLines(m, IF k = 0 THEN 1 ELSE k)

CountTexts ==
    {ArrayCountText(n, m) : n \in 0..MaxCount, m \in 0..MaxGiven}
        \cup {EntryCountText(n, m) : n \in 0..MaxCount, m \in 0..MaxGiven}
        \cup {TableCountText(n, k, m) : n \in 0..(MaxCount - 1), k \in 0..2, m \in 0..MaxGiven}

Texts ==
    {TabularText(d) : d \in TabDocs}
        \cup CountTexts
        \cup { <<":", "x">>,
               <<"a", ":", " ", "[", "3", "]", ":", " ", "1", NL, "b", ":", " ", "2", NL>>,
               <<"a", ":", " ", "[", "2", ",", "]", "{", "a", ",", "b", "}", ":", NL,
                 "1", ",", "2", ",", "3", NL, "4", ",", "5", NL>>,
               <<QUOTE, "a", ":", "b", QUOTE>>,
               <<QUOTE, BACKSLASH, "q", QUOTE>>,
               <<"[", "2", "]", ":", " ", "1", ",", "2">>,
               <<"[", "3", "]", ":", " ", "1">>,
               <<"[", "1", ",", "]", "{", "a">>,
               <<"a", ":", " ", "1", NL, "b", ":", " ", "[", "1", "]", ":", " ", "x", NL>>,
               <<"h", "i">>,
               <<"-", "x">>,
               <<"1", ".", "5">>,
               <<"[", "2", "]", ":", " ", QUOTE, BACKSLASH, "q", ",", QUOTE, "x">>,
               <<"[", "2", "]", ":", " ", QUOTE, "x", ",", "[", "1", "}">>,
               <<"a", ":", " ", "[", "1", ",", "]", "{", "}", ":", NL>>,
               <<"a", ":", " ", "[", "2", ",", "]", "{", "i", "d", "}", ":", NL,
                 "1", NL, "2", NL>>,
               <<" ", ":", "x">> }

\* residues of earlier use in fresh buffers
Heaps == { <<>>, <<"z">>, <<"k", ":", " ", "9", NL>> }

\* JSON documents as trees, before any array of them is made tabular
JsonElements ==
    { Num(1), Str(s_hi), Obj(<<>>),
      Obj(<<Entry(k_a, Num(1))>>), Obj(<<Entry(k_b, Num(2))>>),
      Obj(<<Entry(k_a, Num(3)), Entry(k_b, Num(4))>>),
      Obj(<<Entry(k_b, Bool(TRUE)), Entry(k_a, Null)>>) }

JsonArrays == {Arr(es) : es \in SeqsUpTo(JsonElements, MaxWidth)}

JsonDocs ==
    JsonArrays
        \cup { Num(42), Str(s_hi), Obj(<<>>),
               Obj(<<Entry(k_a, Arr(<<Obj(<<Entry(k_a, Num(1))>>),
                                      Obj(<<Entry(k_b, Num(2))>>)>>))>>),
               Arr(<<Arr(<<Obj(<<Entry(k_a, Num(1))>>), Obj(<<Entry(k_a, Num(2))>>)>>),
                     Arr(<<Obj(<<Entry(k_a, Num(3))>>), Obj(<<Entry(k_a, Num(4))>>)>>)>>),
               Arr(<<Obj(<<Entry(k_a, Arr(<<Obj(<<>>), Obj(<<>>)>>))>>),
                     Obj(<<Entry(k_b, Arr(<<Num(1), Num(2)>>))>>)>>) }

\* a JSON document written out, a blank after every comma and colon
RECURSIVE JsonText(_)
JsonText(j) ==
    CASE j.type = "null" -> <<"n", "u", "l", "l">>
      [] j.type = "boolean" ->
            IF j.boolean THEN <<"t", "r", "u", "e">> ELSE <<"f", "a", "l", "s", "e">>
      [] j.type = "number" -> ltoa(j.number.m)
      [] j.type = "string" -> <<QUOTE>> \o j.string \o <<QUOTE>>
      [] j.type = "array" ->
            <<"[">> \o JoinWith([i \in 1..Len(j.elements) |-> JsonText(j.elements[i])],
                                <<",", " ">>) \o <<"]">>
      [] j.type = "object" ->
            <<"{">> \o JoinWith([i \in 1..Len(j.entries) |->
                                    <<QUOTE>> \o j.entries[i].key \o <<QUOTE, ":", " ">>
                                       \o JsonText(j.entries[i].value)],
                                <<",", " ">>) \o <<"}">>

\* texts that are no JSON, and numbers in their other notations
JsonTexts ==
    { <<"[", "{", QUOTE, "a", QUOTE, "}", "]">>,
      <<"[", "{", QUOTE, "a", QUOTE, ":", "1", "}", ",", "{", QUOTE, "b", QUOTE, "}", "]">>,
      <<"[", "x", "]">>,
      <<"[", "1", ",", "2">>,
      <<"[", QUOTE, "a">>,
      <<"{", "a", "}">>,
      <<"{", QUOTE, "a", QUOTE, ":", "x", "}">>,
      <<"{", QUOTE, "a", QUOTE, ":", "1">>,
      <<QUOTE, "a", BACKSLASH>>,
      <<"x">>,
      <<>>,
      <<" ", "[", " ", "1", " ", ",", " ", "2", " ", "]", " ">>,
      <<"1", "e", "2">>,
      <<"-", "0", ".", "5", "0">>,
      <<"1", "5", "0", "e", "-", "1">>,
      <<"1", ".", "2", "3", "4", "5", "6", "7", "8", "9", "0", "1", "2">> }

\* what toon_value_create returns for a String, an Array, an Object and a
\* TabularArray, and trees a caller has put together from such nodes
MadeValues ==
    { StrNull, Arr(<<>>), Obj(<<>>), Tab(<<>>, <<>>),
      Tab(<<>>, << <<>> >>),
      Tab(<<k_a>>, <<>>),
      Tab(<<k_a, k_b>>, << <<Num(1), StrNull>>, <<StrNull, Num(2)>> >>),
      Arr(<<Num(1), StrNull>>),
      Arr(<<Str(s_hi), Tab(<<>>, <<>>)>>),
      Arr(<<Arr(<<Tab(<<>>, <<>>)>>), StrNull>>),
      Arr(<<StrNull, Tab(<<>>, <<>>)>>),
      Obj(<<Entry(k_a, Tab(<<>>, << <<>> >>)), Entry(k_b, StrNull)>>),
      Obj(<<Entry(k_a, Obj(<<Entry(k_b, StrNull)>>)), Entry(k_b, Tab(<<>>, <<>>))>>),
      Obj(<<Entry(k_a, Arr(<<>>)), Entry(k_b, Tab(<<k_a>>, <<>>))>>),
      Obj(<<Entry(s_name, Arr(<<Str(s_Alice), Null>>)), Entry(k_a, Str(s_name \o s_name))>>) }

InitCodec ==
    /\ \/ val \in CodecValues /\ text = <<>> /\ json = <<>> /\ cpc = "start"
       \/ val \in MadeValues /\ text = <<>> /\ json = <<>> /\ cpc = "made"
       \/ val = NULLPTR /\ text \in Texts /\ json = <<>> /\ cpc = "text"
       \/ val \in JsonDocs /\ text = <<>> /\ json = JsonText(val) /\ cpc = "jtext"
       \/ val = NULLPTR /\ text = <<>> /\ json \in JsonTexts /\ cpc = "jtext"
    /\ heap \in Heaps
    /\ char_signed \in BOOLEAN
    /\ fault = ""
    /\ dec = NoResult
    /\ root = NULLPTR
    /\ pc = "off"
    /\ op = NoOp
    /\ nops = 0

Encode ==
    /\ cpc = "start"
    /\ text' = toon_encode(val, 0, heap)
    /\ cpc' = "encoded"
    /\ UNCHANGED <<val, dec, heap, json, fault, char_signed>>
    /\ UNCHANGED docVars

Decode ==
    /\ cpc \in {"encoded", "text"}
    /\ \E under \in UnderBytes : dec' = toon_decode(text, under)
    /\ fault' = IF LookaheadUnderrun(text) THEN "read before the input" ELSE ""
    /\ cpc' = "decoded"
    /\ UNCHANGED <<val, text, heap, json, char_signed>>
    /\ UNCHANGED docVars

\* toon_to_json of the value given, or of the value toon_decode returned
ToJson ==
    /\ \/ cpc = "start" /\ json' = toon_to_json(val) /\ cpc' = "json"
       \/ /\ cpc = "decoded" /\ dec.value # NULLPTR
          /\ json' = toon_to_json(dec.value)
          /\ cpc' = "decoded_json"
    /\ UNCHANGED <<val, text, dec, heap, fault, char_signed>>
    /\ UNCHANGED docVars

\* json_to_toon of the string toon_to_json returned, or of the text given
FromJson ==
    /\ cpc \in {"json", "jtext"}
    /\ LET r == json_to_toon(json)
       IN /\ dec' = [value |-> r.value, error |-> r.error]
          /\ fault' = IF r.fault THEN "null pointer read" ELSE ""
    /\ cpc' = IF cpc = "json" THEN "round_trip" ELSE "jdecoded"
    /\ UNCHANGED <<val, text, heap, json, char_signed>>
    /\ UNCHANGED docVars

\* toon_validate of the value given, or of the value toon_decode returned
Validate ==
    /\ \/ cpc \in {"start", "made"}
       \/ cpc = "decoded" /\ dec.value # NULLPTR
    /\ LET value == IF cpc = "decoded" THEN dec.value ELSE val
       IN op' = [NoOp EXCEPT !.name = "toon_validate", !.value = value,
                             !.ret = IF toon_validate(value) THEN 1 ELSE 0,
                             !.reply = validate_error(value)]
    /\ cpc' = "validated"
    /\ UNCHANGED <<val, text, dec, heap, json, fault, char_signed>>
    /\ UNCHANGED <<root, pc, nops>>

\* toon_estimate_tokens of the value given, or of what toon_decode returned,
\* a value or NULL; on a String without text it ends in strlen(NULL)
Estimate ==
    /\ cpc \in {"start", "made", "decoded"}
    /\ LET value == IF cpc = "decoded" THEN dec.value ELSE val
       IN IF ReadsNullText(value)
          THEN /\ fault' = "null pointer read"
               /\ op' = [NoOp EXCEPT !.name = "toon_estimate_tokens", !.value = value,
                                     !.ret = -1]
          ELSE /\ fault' = fault
               /\ op' = [NoOp EXCEPT !.name = "toon_estimate_tokens", !.value = value,
                                     !.ret = toon_estimate_tokens(value),
                                     !.before = value]
    /\ cpc' = "estimated"
    /\ UNCHANGED <<val, text, dec, heap, json, char_signed>>
    /\ UNCHANGED <<root, pc, nops>>

NextCodec ==
    \/ Encode
    \/ Decode
    \/ ToJson
    \/ FromJson
    \/ Validate
    \/ Estimate

SpecCodec == InitCodec /\ [][NextCodec]_vars

---------------------------------------------------------------------------
(* Claims about the codec                                                  *)

\* every Number of the tree is an integer
RECURSIVE AllIntegers(_)
AllIntegers(v) ==
    CASE v.type = "number" -> v.number.e = 0
      [] v.type = "array" -> \A i \in 1..Len(v.elements) : AllIntegers(v.elements[i])
      [] v.type = "object" -> \A i \in 1..Len(v.entries) : AllIntegers(v.entries[i].value)
      [] v.type = "tabular_array" ->
            \A r \in 1..Len(v.rows) : \A c \in 1..Len(v.rows[r]) : AllIntegers(v.rows[r][c])
      [] OTHER -> TRUE

\* C1: for every Value tree v of Null, Boolean, integer Number, plain String,
\* Array, Object (nested ones included) and TabularArray with scalar cells,
\* toon_decode(toon_encode(v, 0)) succeeds and returns a tree equal to v.
\* Stated for the most favourable memory: fresh buffers that are all zero.
C1_RoundTrip ==
    (cpc = "decoded" /\ val # NULLPTR /\ AllIntegers(val) /\ heap = <<>>) =>
        (~dec.error.set /\ dec.value = val)

\* C2: decoding a document whose whole text is a tabular array
\* `[n,]{h1,...,hk}:` with n rows of k cells returns a TabularArray with
\* headers h1..hk and exactly those n rows of k decoded cells.
C2_DecodeTabularDocument ==
    (cpc = "decoded" /\ val = NULLPTR) =>
        \A d \in TabDocs :
            text = TabularText(d) => dec.value = Tab(d.headers, d.rows)

---------------------------------------------------------------------------
(* Addresses as the path grammar defines them: `$` followed by `.name` and *)
(* `[index]` steps, a key step naming the first entry with that key and an *)
(* index step counting from the end when negative.                         *)

KeyStep(k) == [kind |-> "key", key |-> k, index |-> 0]
IndexStep(i) == [kind |-> "index", key |-> <<>>, index |-> i]
Steps == {KeyStep(k) : k \in Keys} \cup {IndexStep(i) : i \in IndexValues}

RECURSIVE AddrsUpTo(_)
AddrsUpTo(n) ==
    IF n = 0 THEN {<<>>}
    ELSE LET S == AddrsUpTo(n - 1) IN S \cup {Append(a, st) : a \in S, st \in Steps}

Addrs == AddrsUpTo(MaxTokens)

StepToken(st) == IF st.kind = "key" THEN KeyToken(st.key) ELSE IndexToken(st.index)

RECURSIVE StepsString(_)
StepsString(a) == IF a = <<>> THEN <<>> ELSE StepToken(Head(a)) \o StepsString(Tail(a))

PathString(a) == <<"$">> \o StepsString(a)

Front(a) == SubSeq(a, 1, Len(a) - 1)
Last(a) == a[Len(a)]

\* position of element i of an array of length n, 0 when out of range
Slot(i, n) ==
    IF 0 <= i /\ i < n THEN i + 1
    ELSE IF 0 - n <= i /\ i < 0 THEN n + i + 1
    ELSE 0

RECURSIVE Resolve(_, _)
Resolve(v, a) ==
    IF a = <<>> THEN Ref(<<>>)
    ELSE LET st == Head(a)
         IN IF st.kind = "key"
            THEN IF v.type = "object" /\ FirstKey(v.entries, st.key) > 0
                 THEN LET i == FirstKey(v.entries, st.key)
                      IN Under(i, Resolve(v.entries[i].value, Tail(a)))
                 ELSE NullRef
            ELSE IF v.type = "array" /\ Slot(st.index, Len(v.elements)) > 0
                 THEN LET i == Slot(st.index, Len(v.elements))
                      IN Under(i, Resolve(v.elements[i], Tail(a)))
                 ELSE NullRef

\* sub occurs in s
HasSub(s, sub) ==
    \E i \in 1..(Len(s) - Len(sub) + 1) : SubSeq(s, i, i + Len(sub) - 1) = sub

EndsWith(s, sub) ==
    Len(s) >= Len(sub) /\ SubSeq(s, Len(s) - Len(sub) + 1, Len(s)) = sub

\* s from position p on is a sequence of `.name` and `[integer]` segments
RECURSIVE IntEnd(_, _)
IntEnd(s, p) == IF isdigit(At(s, p)) THEN IntEnd(s, p + 1) ELSE p

RECURSIVE IsSegments(_, _)
IsSegments(s, p) ==
    IF p > Len(s) THEN TRUE
    ELSE IF s[p] = "."
    THEN LET e == NameEnd(s, p + 1, 0)
         IN /\ e > p + 1
            /\ \A j \in (p + 1)..(e - 1) : s[j] \notin {" ", "]"}
            /\ IsSegments(s, e)
    ELSE IF s[p] = "["
    THEN LET d == IF At(s, p + 1) = "-" THEN p + 2 ELSE p + 1
             e == IntEnd(s, d)
         IN e > d /\ At(s, e) = "]" /\ IsSegments(s, e + 1)
    ELSE FALSE

\* the same, also admitting the JSONPath tokens `[*]` and `..name`
RECURSIVE IsJsonPath(_, _)
IsJsonPath(s, p) ==
    IF p > Len(s) THEN TRUE
    ELSE IF s[p] = "."
    THEN LET q == IF At(s, p + 1) = "." THEN p + 1 ELSE p
             e == NameEnd(s, q + 1, 0)
         IN /\ e > q + 1
            /\ \A j \in (q + 1)..(e - 1) : s[j] \notin {" ", "]"}
            /\ IsJsonPath(s, e)
    ELSE IF s[p] = "[" /\ At(s, p + 1) = "*"
    THEN At(s, p + 2) = "]" /\ IsJsonPath(s, p + 3)
    ELSE IF s[p] = "["
    THEN LET d == IF At(s, p + 1) = "-" THEN p + 2 ELSE p + 1
             e == IntEnd(s, d)
         IN e > d /\ At(s, e) = "]" /\ IsJsonPath(s, e + 1)
    ELSE FALSE

Called(name) == pc = "done" /\ op.name = name

---------------------------------------------------------------------------
(* Claims about the path engine                                            *)

\* C3: toon_path_set on a path of one or more segments that resolves to an
\* existing object entry or in-range array slot (at any depth) returns
\* success, puts v there, a following get returns v and nothing else changes.
C3_SetReplacesAtAnyDepth ==
    Called("set") =>
        \A a \in Addrs :
            (Len(a) >= 1 /\ op.path = PathString(a) /\ ~Resolve(op.before, a).null) =>
                LET loc == Resolve(op.before, a).loc
                    got == toon_path_get(root, op.path)
                IN /\ op.ret = 0
                   /\ root = StoreAt(op.before, loc, op.value)
                   /\ ~got.null
                   /\ ValueAt(root, got.loc) = op.value

\* C4: toon_path_set on a path whose final segment is a key k missing from
\* the Object its parent path resolves to (at depth 0 or deeper) returns
\* success and appends exactly (k, v) at the end of that Object.
C4_SetAppendsAtAnyDepth ==
    Called("set") =>
        \A a \in Addrs :
            (/\ Len(a) >= 1
             /\ op.path = PathString(a)
             /\ Last(a).kind = "key"
             /\ ~Resolve(op.before, Front(a)).null
             /\ ValueAt(op.before, Resolve(op.before, Front(a)).loc).type = "object"
             /\ FirstKey(ValueAt(op.before, Resolve(op.before, Front(a)).loc).entries,
                         Last(a).key) = 0) =>
                LET ploc == Resolve(op.before, Front(a)).loc
                    parent == ValueAt(op.before, ploc)
                    got == toon_path_get(root, op.path)
                IN /\ op.ret = 0
                   /\ root = StoreAt(op.before, ploc,
                                [parent EXCEPT !.entries = Append(@, Entry(Last(a).key, op.value))])
                   /\ ~got.null
                   /\ ValueAt(root, got.loc) = op.value

\* C5: toon_path_delete of an in-range element of an Array reachable at any
\* path (or of an existing object entry) returns success and leaves the
\* container one shorter, the others in their original order.
C5_DeleteShiftsAtAnyDepth ==
    Called("delete") =>
        \A a \in Addrs :
            (Len(a) >= 1 /\ op.path = PathString(a) /\ ~Resolve(op.before, a).null) =>
                LET loc == Resolve(op.before, a).loc
                    ploc == Front(loc)
                    parent == ValueAt(op.before, ploc)
                    after == IF parent.type = "array"
                             THEN [parent EXCEPT !.elements = RemoveIndex(@, Last(loc))]
                             ELSE [parent EXCEPT !.entries = RemoveIndex(@, Last(loc))]
                IN /\ op.ret = 0
                   /\ root = StoreAt(op.before, ploc, after)

\* C6: toon_path_get with a final [i] segment on an Array of length n returns
\* element i when 0 <= i < n, element n+i when -n <= i < 0, and not-found
\* for every other i.
C6_PathBounds ==
    Called("get") =>
        \A a \in Addrs :
            (/\ Len(a) >= 1
             /\ op.path = PathString(a)
             /\ Last(a).kind = "index"
             /\ ~Resolve(op.before, Front(a)).null
             /\ ValueAt(op.before, Resolve(op.before, Front(a)).loc).type = "array") =>
                LET ploc == Resolve(op.before, Front(a)).loc
                    n == Len(ValueAt(op.before, ploc).elements)
                    i == Last(a).index
                IN IF 0 <= i /\ i < n THEN op.ref = Ref(Append(ploc, i + 1))
                   ELSE IF 0 - n <= i /\ i < 0 THEN op.ref = Ref(Append(ploc, n + i + 1))
                   ELSE op.ref.null

\* `$.a[-1]` on {"a":[1,2,3]} returned the 3
C6_Witness ==
    /\ Called("get")
    /\ op.path = <<"$", ".", "a", "[", "-", "1", "]">>
    /\ op.before = Obj(<<Entry(k_a, Arr(<<Num(1), Num(2), Num(3)>>))>>)
    /\ ~op.ref.null
    /\ ValueAt(op.before, op.ref.loc) = Num(3)

\* C7: toon_path_get with a path that contains `[*]` or `..` returns not-found.
C7_UnsupportedSyntaxNotFound ==
    Called("get") =>
        ((/\ At(op.path, 1) = "$"
          /\ IsJsonPath(op.path, 2)
          /\ (HasSub(op.path, <<"[", "*", "]">>) \/ HasSub(op.path, <<".", ".">>)))
         => op.ref.null)

\* C8: toon_path_set and toon_path_delete with a path whose final segment is
\* `[*]`, or a bracket segment that is not a decimal integer, fail and leave
\* the tree unchanged.
C8_WildcardMutationFails ==
    (Called("set") \/ Called("delete")) =>
        ((At(op.path, 1) = "$"
            /\ (EndsWith(op.path, <<"[", "*", "]">>) \/ EndsWith(op.path, <<"[", "x", "]">>)))
         => (op.ret = -1 /\ root = op.before))

\* the root node is the same node: of the same kind, and the same scalar
SameRootNode(v, w) ==
    /\ v.type = w.type
    /\ v.type \notin {"array", "object", "tabular_array"} => v = w

\* C9: toon_path_set and toon_path_delete with the path `$` fail and leave the
\* tree unchanged; the root node of a document is replaced by nothing but
\* TOON.SET with the path `$`, which makes the decoded value the root.
C9_RootNotMutableByPath ==
    pc = "done" =>
        /\ ((op.name \in {"set", "delete"} /\ op.path = <<"$">>) =>
                (op.ret = -1 /\ root = op.before))
        /\ ((op.before # NULLPTR /\ ~SameRootNode(op.before, root)) =>
                (op.name = "TOON.SET" /\ op.path = <<"$">>))
        /\ ((op.name = "TOON.SET" /\ op.path = <<"$">> /\ op.value # NULLPTR) =>
                (op.reply = "OK" /\ root = op.value))

\* toon_path_set(root, "$", 7) on [10,20,30] failed and left it as it was
C9_Witness ==
    /\ Called("set")
    /\ op.path = <<"$">>
    /\ op.value = Num(7)
    /\ op.before = Arr(<<Num(10), Num(20), Num(30)>>)
    /\ op.ret = -1
    /\ root = op.before

\* C10: toon_path_get returns not-found for every path that does not start
\* with `$` and for every `$` followed by text that is not a sequence of
\* `.name` / `[index]` segments; it returns the root only for `$` itself.
C10_MalformedPathNotFound ==
    Called("get") =>
        /\ (At(op.path, 1) # "$" => op.ref.null)
        /\ ((At(op.path, 1) = "$" /\ ~IsSegments(op.path, 2)) => op.ref.null)
        /\ (op.ref = Ref(<<>>) => op.path = <<"$">>)

---------------------------------------------------------------------------
(* Claims about merge                                                      *)

KeysOf(o) == [i \in 1..Len(o.entries) |-> o.entries[i].key]
HasKey(o, k) == \E i \in 1..Len(o.entries) : o.entries[i].key = k
ValueOf(o, k) == o.entries[CHOOSE i \in 1..Len(o.entries) : o.entries[i].key = k].value

\* no Object of the tree holds a key twice
RECURSIVE DistinctKeys(_)
DistinctKeys(v) ==
    CASE v.type = "object" ->
            /\ \A i, j \in 1..Len(v.entries) : v.entries[i].key = v.entries[j].key => i = j
            /\ \A i \in 1..Len(v.entries) : DistinctKeys(v.entries[i].value)
      [] v.type = "array" -> \A i \in 1..Len(v.elements) : DistinctKeys(v.elements[i])
      [] OTHER -> TRUE

\* res is Object s merged into Object t: the keys of t in their order, then
\* the keys only s has in the order of s; a key of both holds the merge of
\* the two values when both are Objects and the value of s otherwise
RECURSIVE IsMergeOf(_, _, _)
IsMergeOf(res, t, s) ==
    /\ res.type = "object"
    /\ KeysOf(res) = KeysOf(t) \o SelectSeq(KeysOf(s), LAMBDA k : ~HasKey(t, k))
    /\ \A i \in 1..Len(res.entries) :
          LET k == res.entries[i].key
              v == res.entries[i].value
          IN IF HasKey(t, k) /\ HasKey(s, k)
             THEN IF ValueOf(t, k).type = "object" /\ ValueOf(s, k).type = "object"
                  THEN IsMergeOf(v, ValueOf(t, k), ValueOf(s, k))
                  ELSE v = ValueOf(s, k)
             ELSE IF HasKey(t, k) THEN v = ValueOf(t, k)
             ELSE v = ValueOf(s, k)

C12_MergeTypeMismatch ==
    (Called("merge") /\ (op.before.type # "object" \/ op.value.type # "object")) =>
        (op.ret = -1 /\ root = op.before)

\* an Array merged into the Object {"a":1} failed and left it as it was
C12_Witness ==
    /\ Called("merge")
    /\ op.before = Obj(<<Entry(k_a, Num(1))>>)
    /\ op.value = Arr(<<Num(1), Num(2)>>)
    /\ op.ret = -1
    /\ root = op.before

---------------------------------------------------------------------------
(* Claims about strings in the encoder's output                            *)

\* an ASCII control character
IsControlCharacter(c) == c \in {TAB, NL, CR, "\f", "VT"}

\* the quoting rule: the string is empty, a keyword, a numeral from its first
\* to its last character, has a blank at an end, or holds a structural or a
\* control character
MustBeQuoted(str) ==
    \/ Len(str) = 0
    \/ str \in { <<"n", "u", "l", "l">>, <<"t", "r", "u", "e">>, <<"f", "a", "l", "s", "e">> }
    \/ StrtodEnd(str) = Len(str) + 1
    \/ isspace(At(str, 1)) \/ isspace(At(str, Len(str)))
    \/ \E i \in 1..Len(str) :
          str[i] \in {",", ":", NL, CR, "{", "}", "[", "]"} \/ IsControlCharacter(str[i])

\* C13: the encoder emits a String in quotes exactly when it is empty, equals
\* null/true/false, parses fully as a number, has leading or trailing
\* whitespace, or contains one of , : \n \r { } [ ] or a control character,
\* and emits it bare otherwise; the string 42 is quoted, the string hello is not.
C13_QuotingRule ==
    (cpc = "encoded" /\ val.type = "string") =>
        text = IF MustBeQuoted(val.string)
               THEN <<QUOTE>> \o EscapeBody(val.string) \o <<QUOTE>>
               ELSE val.string

\* C14: decoding the encoder's output for an Object entry whose value is
\* String(s) yields an entry whose value is String(s), for every s, also one
\* that begins with a digit, with `-` or with a quote.  Stated for the most
\* favourable memory: fresh buffers that are all zero.
C14_StringsSurvive ==
    (/\ cpc = "decoded"
     /\ val.type = "object"
     /\ Len(val.entries) = 1
     /\ val.entries[1].value.type = "string"
     /\ heap = <<>>) =>
        /\ dec.value.type = "object"
        /\ Len(dec.value.entries) >= 1
        /\ dec.value.entries[1] = val.entries[1]

---------------------------------------------------------------------------
(* Claims about the JSON bridge                                            *)

\* the rows of a table as objects: row r pairs header c with cell (r, c)
RowObjects(v) ==
    Arr([r \in 1..Len(v.rows) |->
            Obj([c \in 1..Len(v.headers) |-> Entry(v.headers[c], v.rows[r][c])])])

\* the `[2,]{id,name}` example and the JSON text expected for it
ExampleTable ==
    [headers |-> <<s_id, s_name>>,
     rows |-> << <<Num(1), Str(s_Alice)>>, <<Num(2), Str(s_Bob)>> >>]
ExampleJson ==
    <<"[", "{", QUOTE>> \o s_id \o <<QUOTE, ":", "1", ",", QUOTE>> \o s_name
        \o <<QUOTE, ":", QUOTE>> \o s_Alice \o <<QUOTE, "}", ",", "{", QUOTE>> \o s_id
        \o <<QUOTE, ":", "2", ",", QUOTE>> \o s_name \o <<QUOTE, ":", QUOTE>> \o s_Bob
        \o <<QUOTE, "}", "]">>

\* C15: toon_to_json writes a TabularArray as the JSON array of its rows as
\* objects, in row and header order, and an Array and an Object element by
\* element and entry by entry in their order; for the value decoded from the
\* `[2,]{id,name}` example the output is exactly
\* [{"id":1,"name":"Alice"},{"id":2,"name":"Bob"}].
C15_TabularToJson ==
    /\ (cpc = "json" /\ val.type = "tabular_array") =>
           json = toon_to_json(RowObjects(val))
    /\ (cpc = "json" /\ val.type = "array") =>
           json = <<"[">>
                    \o JoinWith([i \in 1..Len(val.elements) |-> toon_to_json(val.elements[i])],
                                <<",">>)
                    \o <<"]">>
    /\ (cpc = "json" /\ val.type = "object") =>
           json = <<"{">>
                    \o JoinWith([i \in 1..Len(val.entries) |->
                                    <<QUOTE>> \o val.entries[i].key \o <<QUOTE, ":">>
                                       \o toon_to_json(val.entries[i].value)],
                                <<",">>)
                    \o <<"}">>
    /\ (cpc = "decoded_json" /\ text = TabularText(ExampleTable)) => json = ExampleJson

\* the first three parts of C15 hold: the expansion of a table that is given
\* as a tree, not decoded from text
TabularGivenToJson ==
    (cpc = "json" /\ val = Tab(ExampleTable.headers, ExampleTable.rows)) => json = ExampleJson

\* an array of two or more objects that all have as many entries as the first
UniformArray(es) ==
    /\ Len(es) >= 2
    /\ \A i \in 1..Len(es) :
          es[i].type = "object" /\ Len(es[i].entries) = Len(es[1].entries)

\* the table of such an array: the first object's keys, and cell (r, c) the
\* value of the c-th entry of the r-th object
TableOf(es) ==
    Tab([c \in 1..Len(es[1].entries) |-> es[1].entries[c].key],
        [r \in 1..Len(es) |-> [c \in 1..Len(es[1].entries) |-> es[r].entries[c].value]])

\* the tree expected from a JSON document j: arrays inside are promoted first;
\* with_empty tells whether objects without entries make a table as well
RECURSIVE Promoted(_, _)
Promoted(j, with_empty) ==
    CASE j.type = "array" ->
            LET es == [i \in 1..Len(j.elements) |-> Promoted(j.elements[i], with_empty)]
            IN IF UniformArray(es) /\ (with_empty \/ Len(es[1].entries) > 0)
               THEN TableOf(es)
               ELSE Arr(es)
      [] j.type = "object" ->
            Obj([i \in 1..Len(j.entries) |->
                    Entry(j.entries[i].key, Promoted(j.entries[i].value, with_empty))])
      [] OTHER -> j

\* json_to_toon has returned for the text of the JSON document val
JsonDecoded == cpc = "jdecoded" /\ val # NULLPTR

RECURSIVE Leaves(_)
Leaves(v) ==
    CASE v.type = "array" -> Concat([i \in 1..Len(v.elements) |-> Leaves(v.elements[i])])
      [] v.type = "object" -> Concat([i \in 1..Len(v.entries) |-> Leaves(v.entries[i].value)])
      [] v.type = "tabular_array" ->
            Concat([r \in 1..Len(v.rows) |->
                      Concat([c \in 1..Len(v.rows[r]) |-> Leaves(v.rows[r][c])])])
      [] OTHER -> <<v>>

\* no character of the string is one that toon_to_json writes as an escape
PlainText(str) == \A i \in 1..Len(str) : str[i] \notin {QUOTE, BACKSLASH, NL, CR, TAB}

\* keys, headers and strings of the tree are free of characters to escape
RECURSIVE PlainTree(_)
PlainTree(v) ==
    CASE v.type = "string" -> PlainText(v.string)
      [] v.type = "array" -> \A i \in 1..Len(v.elements) : PlainTree(v.elements[i])
      [] v.type = "object" ->
            \A i \in 1..Len(v.entries) :
               PlainText(v.entries[i].key) /\ PlainTree(v.entries[i].value)
      [] v.type = "tabular_array" ->
            /\ \A c \in 1..Len(v.headers) : PlainText(v.headers[c])
            /\ \A r \in 1..Len(v.rows) : \A c \in 1..Len(v.rows[r]) : PlainTree(v.rows[r][c])
      [] OTHER -> TRUE

\* C17: for every Value tree v whose keys and strings are free of characters
\* that need escaping, json_to_toon(toon_to_json(v)) succeeds and the scalar
\* leaves of the result, in document order, are those of v, also where an
\* Array of objects comes back as a TabularArray or a TabularArray as an Array.
C17_JsonPreservesScalars ==
    (cpc = "round_trip" /\ PlainTree(val)) =>
        /\ ~dec.error.set
        /\ dec.value # NULLPTR
        /\ Leaves(dec.value) = Leaves(val)

---------------------------------------------------------------------------
(* Claims about errors                                                     *)

\* toon_decode or json_to_toon has been called
Parsed == cpc \in {"decoded", "jdecoded", "round_trip"}

\* C18: for every input text, toon_decode and json_to_toon return either a
\* value or an error, and on no input do they read through an absent (null)
\* element or read before the start of the input.
C18_NoFault ==
    Parsed => (fault = "" /\ (dec.value # NULLPTR \/ dec.error.set))

\* the two halves of C18 apart: the faults, and what is returned without one
NoFault == Parsed => fault = ""
ValueOrError == (Parsed /\ fault = "") => (dec.value # NULLPTR \/ dec.error.set)

\* no String node of the tree is without its text
RECURSIVE NoAbsentString(_)
NoAbsentString(v) ==
    CASE v = NULLPTR -> TRUE
      [] v.type = "string" -> v # StrNull
      [] v.type = "array" -> \A i \in 1..Len(v.elements) : NoAbsentString(v.elements[i])
      [] v.type = "object" -> \A i \in 1..Len(v.entries) : NoAbsentString(v.entries[i].value)
      [] v.type = "tabular_array" ->
            \A r \in 1..Len(v.rows) : \A c \in 1..Len(v.rows[r]) : NoAbsentString(v.rows[r][c])
      [] OTHER -> TRUE

\* `[2]: "\q,"x`: the escape \q is the first error, at line 1, column 8; the
\* array parser goes on and meets further errors after it
TwoErrorsText == <<"[", "2", "]", ":", " ", QUOTE, BACKSLASH, "q", ",", QUOTE, "x">>
FirstOfTwoErrors ==
    [set |-> TRUE, message |-> "Invalid escape sequence", line |-> 1, column |-> 8]

\* C19: once a parse step has set an error during toon_decode, later calls of
\* the error setter leave message and position as they are, and toon_decode
\* returns no value together with that first error; it never returns both a
\* value and an error, nor a value holding a String node without its text.
C19_ErrorPolicy ==
    cpc = "decoded" =>
        /\ dec.error.set => dec.value = NULLPTR
        /\ dec.value # NULLPTR => (~dec.error.set /\ NoAbsentString(dec.value))
        /\ text = TwoErrorsText => dec.error = FirstOfTwoErrors

\* the text with two errors has been decoded: no value, the first error
C19_Witness ==
    /\ cpc = "decoded"
    /\ text = TwoErrorsText
    /\ dec.value = NULLPTR
    /\ dec.error.message = "Invalid escape sequence"

---------------------------------------------------------------------------
(* Claims about tables                                                     *)

\* every TabularArray of the tree that has rows has a header
RECURSIVE RowsHaveHeaders(_)
RowsHaveHeaders(v) ==
    CASE v = NULLPTR -> TRUE
      [] v.type = "array" -> \A i \in 1..Len(v.elements) : RowsHaveHeaders(v.elements[i])
      [] v.type = "object" -> \A i \in 1..Len(v.entries) : RowsHaveHeaders(v.entries[i].value)
      [] v.type = "tabular_array" ->
            /\ Len(v.rows) > 0 => Len(v.headers) > 0
            /\ \A r \in 1..Len(v.rows) :
                  \A c \in 1..Len(v.rows[r]) : RowsHaveHeaders(v.rows[r][c])
      [] OTHER -> TRUE

\* C20: every TabularArray with a nonzero row count in a value returned by
\* toon_decode or json_to_toon has at least one header, and every value
\* returned by a successful toon_decode or json_to_toon passes toon_validate.
C20_TabularHeaders ==
    (Parsed /\ fault = "" /\ dec.value # NULLPTR) =>
        (RowsHaveHeaders(dec.value) /\ toon_validate(dec.value))

\* the half of C20 about json_to_toon
JsonTablesHaveHeaders ==
    (cpc \in {"jdecoded", "round_trip"} /\ fault = "" /\ dec.value # NULLPTR) =>
        (RowsHaveHeaders(dec.value) /\ toon_validate(dec.value))

---------------------------------------------------------------------------
(* Claims about the counts and the ownership of nodes                      *)

\* every slot within a length holds a child, and every row of a table has
\* one cell for each header
RECURSIVE WellCounted(_)
WellCounted(v) ==
    CASE v = NULLPTR -> FALSE
      [] v.type = "array" -> \A i \in 1..Len(v.elements) : WellCounted(v.elements[i])
      [] v.type = "object" ->
            \A i \in 1..Len(v.entries) :
               v.entries[i] # NULLPTR /\ WellCounted(v.entries[i].value)
      [] v.type = "tabular_array" ->
            \A r \in 1..Len(v.rows) :
               /\ Len(v.rows[r]) = Len(v.headers)
               /\ \A c \in 1..Len(v.rows[r]) : WellCounted(v.rows[r][c])
      [] OTHER -> TRUE

RECURSIVE Reachable(_)
Reachable(v) ==
    CASE v = NULLPTR -> <<>>
      [] v.type = "array" ->
            <<NodeId(v)>> \o FlatSeq([i \in 1..Len(v.elements) |-> Reachable(v.elements[i])])
      [] v.type = "object" ->
            <<NodeId(v)>>
               \o FlatSeq([i \in 1..Len(v.entries) |-> Reachable(v.entries[i].value)])
      [] v.type = "tabular_array" ->
            <<NodeId(v)>>
               \o FlatSeq([r \in 1..Len(v.rows) |->
                     FlatSeq([c \in 1..Len(v.rows[r]) |-> Reachable(v.rows[r][c])])])
      [] OTHER -> <<NodeId(v)>>

\* the nodes of a sequence that a caller allocated and named
CallerNodes(nodes) == SelectSeq(nodes, LAMBDA n : n # NewNode)

Occurrences(nodes, n) == Cardinality({i \in 1..Len(nodes) : nodes[i] = n})

Members(nodes) == {nodes[i] : i \in 1..Len(nodes)}

\* C22: after any sequence of toon_path_set, toon_path_delete and toon_merge
\* calls, successful or failed, every node reachable from the root is held by
\* exactly one parent slot, no reachable node has been freed, no node is freed
\* twice, every node of the tree that the call made unreachable has been freed
\* exactly once, and no node of a merge source is reachable from the target.
C22_UniqueOwnership ==
    LET held == CallerNodes(Reachable(root))
        was_held == CallerNodes(Reachable(op.before))
        freed == CallerNodes(op.freed)
    IN /\ \A n \in Members(held) : Occurrences(held, n) = 1
       /\ (pc = "done" /\ op.name \in {"set", "delete", "merge"}) =>
             /\ Members(held) \cap Members(freed) = {}
             /\ \A n \in Members(freed) : Occurrences(freed, n) = 1
             /\ \A n \in Members(was_held) \ Members(held) : Occurrences(freed, n) = 1
             /\ Members(freed) \subseteq Members(was_held)
             /\ op.name = "merge" =>
                   Members(held) \cap Members(Reachable(op.value)) = {}

\* a set has replaced a subtree of two or more nodes, all of them freed, and
\* the value passed is in the tree
C22_Witness ==
    /\ Called("set")
    /\ op.ret = 0
    /\ Len(CallerNodes(op.freed)) >= 2
    /\ NodeId(op.value) \in Members(Reachable(root))

\* a merge has replaced a subtree of the target by a copy of a source's
C22_MergeWitness ==
    /\ Called("merge")
    /\ op.ret = 0
    /\ Len(CallerNodes(op.freed)) >= 1
    /\ root # op.before

---------------------------------------------------------------------------
(* Claims about toon_validate and toon_estimate_tokens                     *)

\* the violations of the data-model invariants in a value, in depth-first
\* order: a String without text, a TabularArray with rows and no header
RECURSIVE Violations(_)
Violations(v) ==
    CASE v = NULLPTR -> <<"NULL value">>
      [] v.type = "string" ->
            IF "string" \in DOMAIN v THEN <<>> ELSE <<"String value is NULL">>
      [] v.type = "array" ->
            FlatSeq([i \in 1..Len(v.elements) |-> Violations(v.elements[i])])
      [] v.type = "object" ->
            FlatSeq([i \in 1..Len(v.entries) |-> Violations(v.entries[i].value)])
      [] v.type = "tabular_array" ->
            (IF Len(v.rows) > 0 /\ Len(v.headers) = 0
             THEN <<"Tabular array has no headers">> ELSE <<>>)
               \o FlatSeq([r \in 1..Len(v.rows) |->
                     FlatSeq([c \in 1..Len(v.rows[r]) |-> Violations(v.rows[r][c])])])
      [] OTHER -> <<>>

\* a TabularArray with no row and no header lies in the value
RECURSIVE HasBareTable(_)
HasBareTable(v) ==
    CASE v = NULLPTR -> FALSE
      [] v.type = "array" -> \E i \in 1..Len(v.elements) : HasBareTable(v.elements[i])
      [] v.type = "object" -> \E i \in 1..Len(v.entries) : HasBareTable(v.entries[i].value)
      [] v.type = "tabular_array" ->
            \/ Len(v.rows) = 0 /\ Len(v.headers) = 0
            \/ \E r \in 1..Len(v.rows) :
                  \E c \in 1..Len(v.rows[r]) : HasBareTable(v.rows[r][c])
      [] OTHER -> FALSE

Validated == cpc = "validated" /\ op.name = "toon_validate"

\* C23: toon_validate(v) returns true exactly when no node of v violates the
\* data-model invariants, a TabularArray with zero rows and zero headers being
\* accepted, and when it returns false it reports the first violation met in
\* depth-first order.
C23_Validate ==
    Validated =>
        /\ (op.ret = 1) <=> (Violations(op.value) = <<>>)
        /\ op.ret = 0 =>
              /\ Violations(op.value) # <<>>
              /\ op.reply = Head(Violations(op.value))

\* C23 for the values that hold no TabularArray without rows and headers
ValidateWithoutBareTable == (Validated /\ ~HasBareTable(op.value)) => C23_Validate

\* a String without text behind a sound element is the violation reported
ValidateWitness ==
    /\ Validated
    /\ op.value = Arr(<<Num(1), StrNull>>)
    /\ op.ret = 0
    /\ op.reply = "String value is NULL"

\* the whole number of fours in n
Quarter(n) == CHOOSE q \in 0..n : 4 * q <= n /\ n < 4 * (q + 1)

\* the estimate as the sum of what each node, key and header adds
RECURSIVE UnitsOf(_)
UnitsOf(v) ==
    CASE v = NULLPTR -> 0
      [] v.type = "string" -> Quarter(Len(v.string)) + 1
      [] v.type = "array" ->
            2 + SumSeq([i \in 1..Len(v.elements) |-> UnitsOf(v.elements[i])])
      [] v.type = "object" ->
            SumSeq([i \in 1..Len(v.entries) |->
                      Quarter(Len(v.entries[i].key)) + 2 + UnitsOf(v.entries[i].value)])
      [] v.type = "tabular_array" ->
            3 + SumSeq([c \in 1..Len(v.headers) |-> Quarter(Len(v.headers[c])) + 1])
              + SumSeq(FlatSeq([r \in 1..Len(v.rows) |->
                                  [c \in 1..Len(v.rows[r]) |-> UnitsOf(v.rows[r][c])]]))
      [] OTHER -> 1

Estimated == cpc = "estimated" /\ op.name = "toon_estimate_tokens" /\ fault = ""

\* C24: toon_estimate_tokens returns 0 for an absent value, 1 for Null,
\* Boolean and Number,
\* floor(len/4)+1 for a String, 2 plus the estimates of the elements for an
\* Array, floor(len(key)/4)+2 plus the estimate of the value for each entry of
\* an Object, 3 plus floor(len(header)/4)+1 for each header plus the estimates
\* of all cells for a TabularArray; the value is the same after the call.
C24_EstimateTokens ==
    Estimated =>
        /\ op.ret = UnitsOf(op.value)
        /\ op.value \in {val, dec.value}

\* {"name": ["Alice", null], "a": "namename"}: 3 for the key `name`, 2 for the
\* Array, 2 for `Alice`, 1 for null, 2 for the key `a`, 3 for `namename`
C24_Witness ==
    /\ Estimated
    /\ op.value.type = "object"
    /\ Len(op.value.entries) = 2
    /\ Len(op.value.entries[1].key) = 4
    /\ op.ret = 13

\* the estimate of the NULL that a failed toon_decode returned
EstimateOfNothing == Estimated /\ op.value = NULLPTR /\ op.ret = 0

---------------------------------------------------------------------------
(* Claims about the decoder's counts and dispatch                          *)

\* the first n of the values 1, 2, ..., m, empty Strings where they run out
CountedValues(n, m) == [i \in 1..n |-> IF i <= m THEN Num(i) ELSE Str(<<>>)]

\* n rows of k cells holding the first values given, row by row
CountedRows(n, k, m) ==
    [r \in 1..n |-> [c \in 1..k |-> CountedValues(n * k, m)[(r - 1) * k + c]]]

Decoded == cpc = "decoded" /\ ~dec.error.set /\ dec.value # NULLPTR

\* the value of the entry `a` of the Object decoded
DecodedEntry == dec.value.entries[1].value

C25_SurplusWitness ==
    /\ Decoded
    /\ text = TableCountText(1, 1, 3)
    /\ DecodedEntry = Tab(<<k_a>>, << <<Num(1)>> >>)

\* with lines after the array, the elements that the array's own line does
\* not give are read from those lines: the count is kept all the same
CountKeptAcrossLines ==
    (cpc = "decoded"
       /\ text \in { <<"a", ":", " ", "[", "3", "]", ":", " ", "1", NL, "b", ":", " ", "2", NL>>,
                     <<"a", ":", " ", "[", "2", ",", "]", "{", "a", ",", "b", "}", ":", NL,
                       "1", ",", "2", ",", "3", NL, "4", ",", "5", NL>> }) =>
        /\ Decoded
        /\ DecodedEntry.type = "array" => Len(DecodedEntry.elements) = 3
        /\ DecodedEntry.type = "tabular_array" =>
              /\ Len(DecodedEntry.rows) = 2
              /\ \A r \in 1..2 : Len(DecodedEntry.rows[r]) = 2

\* the first non-blank line of a text: from its first character that is no
\* white space up to the end of that line
FirstLine(t) ==
    LET first == skip_whitespace(t, Parser(1, 1, 0, NoError)).current
        ends == {i \in first..Len(t) : t[i] = NL}
        last == IF ends = {} THEN Len(t) ELSE (CHOOSE i \in ends : \A k \in ends : i <= k) - 1
    IN SubSeq(t, first, last)

\* position i of a line lies inside a quoted string: an odd number of quotes
\* that no backslash precedes stand before it
InQuotes(line, i) ==
    Cardinality({k \in 1..(i - 1) :
                    line[k] = QUOTE /\ (k = 1 \/ line[k - 1] # BACKSLASH)}) % 2 = 1

\* the line holds a `:` outside quoted strings that no `]` precedes
HasKeyColon(line) ==
    \E i \in 1..Len(line) :
       /\ line[i] = ":"
       /\ ~InQuotes(line, i)
       /\ i > 1 => line[i - 1] # "]"

HasQuote(t) == \E i \in 1..Len(t) : t[i] = QUOTE

\* C26: toon_decode parses the document as a top-level Object if and only if
\* its first non-blank line contains an unescaped `:` that no `]` immediately
\* precedes, and as a single Value otherwise; a document that is one quoted
\* string containing `:` decodes to a String and `[n]: v1,...` to an Array.
C26_TopLevelDispatch ==
    (Decoded /\ fault = "") =>
        /\ (dec.value.type = "object") <=> HasKeyColon(FirstLine(text))
        /\ text = <<QUOTE, "a", ":", "b", QUOTE>> => dec.value = Str(<<"a", ":", "b">>)
        /\ text = ArrayCountText(2, 2) => dec.value = Arr(<<Num(1), Num(2)>>)

\* C26 for the documents that hold no quoted string
DispatchWithoutQuotes == (Decoded /\ fault = "" /\ ~HasQuote(text)) => C26_TopLevelDispatch

\* `[2]: 1,2` has been parsed as a Value and `a: [2]: 1,2` as an Object
DispatchWitness ==
    /\ Decoded
    /\ \/ text = ArrayCountText(2, 2) /\ dec.value.type = "array"
       \/ text = EntryCountText(2, 2) /\ dec.value.type = "object"

---------------------------------------------------------------------------
(* Claims about the encoder's layout                                       *)

IsScalar(v) == v.type \in {"null", "boolean", "number", "string"}

Blanks(n) == [i \in 1..n |-> " "]

\* the text of an Array at a level: on one line when all elements are
\* scalars, else a `- ` line for each element one level deeper; what is no
\* Array is written as the encoder writes it
RECURSIVE ArrayLayout(_, _, _)
ArrayLayout(v, level, junk) ==
    LET count == ltoa(Len(v.elements))
        element(i, at) ==
            IF v.elements[i].type = "array" THEN ArrayLayout(v.elements[i], at, junk)
            ELSE encode_value(v.elements[i], at, FALSE, junk)
    IN IF \A i \in 1..Len(v.elements) : IsScalar(v.elements[i])
       THEN <<"[">> \o count \o <<"]", ":", " ">>
              \o JoinWith([i \in 1..Len(v.elements) |-> element(i, 0)], <<",">>)
       ELSE <<"[">> \o count \o <<"]", ":", NL>>
              \o Concat([i \in 1..Len(v.elements) |->
                    Blanks(IndentWidth * (level + 1)) \o <<"-", " ">>
                       \o element(i, level + 1) \o <<NL>>])

\* C27: the encoder emits an Array as `[count]: v1,v2,...` on one line exactly
\* when every element is a scalar, an empty Array included, and otherwise as
\* `[count]:` followed by one `- <value>` line per element, indented one level
\* deeper than the array; the count printed is the Array's length and the
\* elements appear in order.
C27_ArrayLayout ==
    (cpc = "encoded" /\ val.type = "array") => text = ArrayLayout(val, 0, heap)

\* [[[1], 2]] has been encoded: the inner arrays lie one and two levels deep
C27_Witness ==
    /\ cpc = "encoded"
    /\ val = Arr(<<Arr(<<Arr(<<Num(1)>>), Num(2)>>)>>)
    /\ text = <<"[", "1", "]", ":", NL,
                " ", " ", "-", " ", "[", "2", "]", ":", NL,
                " ", " ", " ", " ", "-", " ", "[", "1", "]", ":", " ", "1", NL,
                " ", " ", " ", " ", "-", " ", "2", NL, NL>>

---------------------------------------------------------------------------
(* Claims about failed calls and duplicate keys                            *)

FailedCall == pc = "done" /\ op.name \in {"set", "delete"} /\ op.ret # 0

\* C28: whenever toon_path_set or toon_path_delete returns failure, the tree
\* under root is exactly as before the call, and for set the value passed has
\* been neither attached to the tree nor freed: the caller still owns it.
C28_FailedMutationNoEffect ==
    FailedCall =>
        /\ root = op.before
        /\ op.freed = <<>>
        /\ op.name = "set" =>
              Members(CallerNodes(Reachable(op.value)))
                 \cap Members(CallerNodes(Reachable(root))) = {}

\* a set at an index beyond the length of the array [[1,2],[3]] has failed
C28_Witness ==
    /\ FailedCall
    /\ op.name = "set"
    /\ op.path = <<"$", "[", "5", "]">>
    /\ root.type = "array"
    /\ Len(root.elements) = 2

\* each way of failing occurs: a malformed path, a missing intermediate
\* segment, a wrong container kind, a missing key on delete
FailedForMalformedPath == FailedCall /\ op.path = <<"a">>
FailedForMissingSegment ==
    FailedCall /\ op.path = <<"$", ".", "a", ".", "x">> /\ root.type = "array"
FailedForWrongKind == FailedCall /\ op.path = <<"$", "[", "0", "]">> /\ root.type = "object"
FailedForMissingKey ==
    /\ FailedCall
    /\ op.name = "delete"
    /\ op.path = <<"$", ".", "x">>
    /\ root.type = "object"

FailedCommand == Called("TOON.SET") /\ op.reply # "OK"

\* C29: when TOON.SET replies with an error the key space is as before the
\* command, no document having been created at a key that was empty, and the
\* command is not replicated, so that a replica which applies the replicated
\* commands holds the same keys and documents as the primary.
C29_FailingSetChangesNothing == FailedCommand => (root = op.before /\ ~op.replicated)

\* C29 for a key that held a document before the command
FailingSetOnDocument ==
    (FailedCommand /\ op.before # NULLPTR) => (root = op.before /\ ~op.replicated)

\* no failing command is replicated
FailingSetNotReplicated == FailedCommand => ~op.replicated

\* TOON.SET with a path that the document does not take has failed on a key
\* that holds a document
FailingSetWitness ==
    /\ FailedCommand
    /\ op.reply = "ERR invalid path"
    /\ op.before # NULLPTR
    /\ op.before.type = "object"

\* the positions of the entries with a key, in order
WithKey(entries, k) == {i \in 1..Len(entries) : entries[i].key = k}

Earliest(positions) == CHOOSE i \in positions : \A j \in positions : i <= j

Without(entries, i) == SubSeq(entries, 1, i - 1) \o SubSeq(entries, i + 1, Len(entries))

\* the call was addressed at key k of the Object at ploc, which holds several
\* entries with that key; each of get, set and delete acts on the first one
OnFirstEntry(ploc, k) ==
    LET holder == ValueAt(op.before, ploc)
        first == Earliest(WithKey(holder.entries, k))
    IN CASE op.name = "get" ->
              /\ ~op.ref.null
              /\ op.ref.loc = ploc \o <<first>>
              /\ ValueAt(op.before, op.ref.loc) = holder.entries[first].value
         [] op.name = "set" ->
              /\ op.ret = 0
              /\ root = StoreAt(op.before, ploc,
                                [holder EXCEPT !.entries[first].value = op.value])
         [] op.name = "delete" ->
              /\ op.ret = 0
              /\ root = StoreAt(op.before, ploc,
                                [holder EXCEPT !.entries = Without(@, first)])
         [] OTHER -> TRUE

Several(v, k) == v.type = "object" /\ Cardinality(WithKey(v.entries, k)) >= 2

\* the same for the Object at the root
DuplicateKeysAtRoot ==
    (pc = "done" /\ op.name \in {"get", "set", "delete"}) =>
        \A k \in {k_a, k_b} :
            (op.path = <<"$">> \o KeyToken(k) /\ Several(op.before, k)) =>
                OnFirstEntry(<<>>, k)

\* C30: on an Object holding several entries with the same key k,
\* toon_path_get, toon_path_set and toon_path_delete addressed at k act on the
\* first such entry only: get returns its value, set replaces only its value
\* without appending, delete removes only it, and every other entry keeps its
\* key, value and relative order.
C30_DuplicateKeys ==
    /\ DuplicateKeysAtRoot
    /\ (pc = "done" /\ op.name \in {"get", "set", "delete"}) =>
          \A j \in {k_a, k_b}, k \in {k_a, k_b} :
              (/\ op.path = <<"$">> \o KeyToken(j) \o KeyToken(k)
               /\ op.before.type = "object"
               /\ WithKey(op.before.entries, j) # {}
               /\ Several(op.before.entries[Earliest(WithKey(op.before.entries, j))].value, k))
                  => OnFirstEntry(<<Earliest(WithKey(op.before.entries, j))>>, k)

\* `$.a` has been deleted from {"a":{"b":1},"a":2,"b":[1,2]}: the second entry
\* `a` is now the first
DuplicateKeysWitness ==
    /\ Called("delete")
    /\ op.ret = 0
    /\ op.path = <<"$">> \o KeyToken(k_a)
    /\ Len(op.before.entries) = 3
    /\ Several(op.before, k_a)
    /\ Len(root.entries) = 2
    /\ root.entries[1] = op.before.entries[2]
    /\ root.entries[2] = op.before.entries[3]

\* a set at `$.a` of the same Object has replaced the first value only
DuplicateKeysSetWitness ==
    /\ Called("set")
    /\ op.ret = 0
    /\ op.path = <<"$">> \o KeyToken(k_a)
    /\ Several(op.before, k_a)
    /\ Len(root.entries) = Len(op.before.entries)
    /\ root.entries[1].value = op.value
    /\ root.entries[2] = op.before.entries[2]

\* get at `$.b.a` returns the first of the two values under `a` of the
\* nested Object
NestedGetWitness ==
    /\ Called("get")
    /\ op.path = <<"$">> \o KeyToken(k_b) \o KeyToken(k_a)
    /\ op.before.type = "object"
    /\ Several(op.before.entries[1].value, k_a)
    /\ op.ref = Ref(<<1, 1>>)

=============================================================================
